---- MODULE Spec2Model ----
(***************************************************************************)
(* LLM Gateway: the process supervisor (internal/backend, Manager), the    *)
(* run command (cmdRun) that drives it, the provisioning of the engine     *)
(* binary (EnsureBackend) and the gateway server (internal/api, Server).   *)
(*                                                                         *)
(* Seven specifications share the variables:                               *)
(*   Spec       the run command: model lookup and download, EnsureBackend, *)
(*              Start, signal handler, WaitReady, ListenAndServe, exits;   *)
(*   SpecApi    one caller issuing any sequence of Start, WaitReady and    *)
(*              Stop on one Manager;                                       *)
(*   SpecProv   EnsureBackend calls on the files of the bin directory,     *)
(*              each of which may be interrupted;                          *)
(*   SpecGw     the gateway handling requests while cmdRun is in           *)
(*              ListenAndServe;                                            *)
(*   SpecStream the proxy relaying a streamed answer;                      *)
(*   SpecRel    findRelease choosing a release asset;                      *)
(*   SpecReg    the model registry under Add and Remove.                   *)
(*                                                                         *)
(* Time is in milliseconds.  It advances only while WaitReady sleeps or is *)
(* blocked inside a health probe; every other step is instantaneous.  Only *)
(* differences of clock readings are ever used, so the clock is set back   *)
(* to 0 when a WaitReady call has returned.  The five minutes of the run   *)
(* command's WaitReady are followed tick by tick from 1.5 s to 2 s after   *)
(* the call and over its last second.  In the stretches in between the     *)
(* loop takes its rounds step by step as everywhere, while the clock keeps *)
(* the reading of the first instant of the stretch, which stands for every *)
(* instant of it, until it moves on to the next instant that is followed.  *)
(* Process semantics are those of os/exec on Unix: ProcessState is set by  *)
(* Cmd.Wait only, and ProcessState.Exited() is true for a normal exit and  *)
(* false for a process terminated by a signal.                             *)
(***************************************************************************)
EXTENDS Naturals, Integers, FiniteSets, Sequences, TLC

\* ------------------------------------------------------------ bounds ----
\* how many times the caller of SpecApi may call Start
MaxStarts == 2
\* the longest timeout handed to WaitReady in SpecApi, in clock ticks
MaxTimeoutTicks == 3

\* the model names a gateway server may be constructed with are 1 .. MaxModels
MaxModels == 2

\* a streamed response has 1 .. MaxChunks chunks
MaxChunks == 3

\* a release lists at most MaxAssets assets
MaxAssets == 2

\* the ids and the repo ids of registry entries are 1 .. MaxKeys
MaxKeys == 2

\* ------------------------------------------------- program constants ----
\* time.Sleep(500 * time.Millisecond)
PollInterval == 500

\* proxy.FlushInterval = 50 * time.Millisecond
FlushInterval == 50

\* config: DefaultPort, BackendPort
DefaultPort == 8080
BackendPort == 39741

\* the values of the -port flag of the run command: the default, and the
\* port of the engine
PortFlags == {DefaultPort, BackendPort}

\* config.New()
NewConfig == [port |-> DefaultPort, backendPort |-> BackendPort]

\* cmdRun: cfg := config.New(); cfg.Port = *port
RunConfig(port) == [NewConfig EXCEPT !.port = port]

\* Manager.BackendURL: "http://127.0.0.1:%d" with cfg.BackendPort
BackendURL(c) == [host |-> "127.0.0.1", port |-> c.backendPort]

\* the --host and --port arguments that Start passes to the engine
EngineBind(c) == [host |-> "127.0.0.1", port |-> c.backendPort]

\* api.NewServer(port, backendURL, modelName): the fields other than modelName
NewServer(port, backendURL) == [port |-> port, backendURL |-> backendURL]

\* the granularity of the model's clock: half a polling interval
Tick == PollInterval \div 2

\* the timeouts a caller may pass to WaitReady: none at all, and the
\* longest whose clock is followed all the way
Timeouts == { 0, MaxTimeoutTicks * Tick }

\* mgr.WaitReady(5 * time.Minute), in milliseconds
RunTimeout == 5 * 60 * 1000

\* the longest timeout among Timeouts: the clock of a WaitReady call with
\* a timeout up to this is followed tick by tick all the way
Window == MaxTimeoutTicks * Tick

\* the clock of a call with a longer timeout is followed tick by tick for
\* one polling interval, from MidFrom to MidTo after the call (an engine
\* that has loaded two seconds into the call), and again from LateWindow
\* before its deadline on, which leaves room for one more probe.  In a
\* stretch between them the clock reads the first instant of the stretch
MidFrom == 3 * PollInterval

MidTo == 4 * PollInterval

LateWindow == 2 * PollInterval

\* the probes of one WaitReady call are counted up to this many, which is
\* more than a call with a timeout among Timeouts can make
MaxProbes == MaxTimeoutTicks

\* how long the clock keeps running past the deadline of a blocked probe
Overrun == PollInterval

Pids == 1..MaxStarts
Tasks == {"main", "handler"}

\* ----------------------------------------------------------- state -----
VARIABLES
    pc,             \* position of each task
    exitStatus,     \* "running", "exit0", "exit1", "killed" (default signal action)
    mcmd,           \* Manager.cmd: [set, proc, pstate]
    procs,          \* state of each engine child process: "unborn", "running",
                    \* terminated and not yet reaped ("exited" and "crashed" on its
                    \* own, "killed" by Stop), or "reaped"
    ready,          \* the engines that have finished loading: /health answers 200
    readyAt,        \* when the first engine finished loading (-1: none has)
    spawned,        \* how many engine processes Start has spawned
    now,            \* the clock
    wrDeadline,     \* WaitReady: deadline
    wrStart,        \* WaitReady: time of the call
    wakeAt,         \* WaitReady: end of the current sleep
    resp,           \* WaitReady: outcome of the last http.Get
    wrResult,       \* WaitReady: returned value
    probes,         \* WaitReady: probes made by the current call
    wrHung,         \* WaitReady: some probe of the current call blocked
    wrDied,         \* WaitReady: when the last probe was made, the engine of m.cmd
                    \* had terminated on its own without ever answering 200
    stopStreak,     \* Stop calls completed since the last Start (capped at 2)
    waitState,      \* per task: the ProcessState that Process.Wait has returned to
                    \* the Cmd.Wait the task is in and that Cmd.Wait has yet to
                    \* store ("none" outside of that)
    registered,     \* signal.Notify has been called
    sigPending,     \* sigCh holds a signal
    sigAfterSpawn,  \* a signal was delivered after Start spawned the engine
    sigHandled,     \* the handler task has received a signal
    served,         \* ListenAndServe has been invoked
    failedStep,     \* the startup step of cmdRun that has failed ("none": none has)
    sigAtFail,      \* a signal had been delivered to the program when that step failed
    modelPath,      \* cmdRun's modelPath: "" until resolved, then how it was resolved
    backendOk,      \* EnsureBackend has returned nil to cmdRun
    repoID,         \* cmdRun's repoID, the resolved model argument (0: no run)
    fs,             \* the files of EnsureBackend: [bin, zip, tmp]
    fsAtCall,       \* the files when the current EnsureBackend call began
    netReqs,        \* network requests made by the current EnsureBackend call
    ebResult,       \* EnsureBackend: returned value ("none", "ok", "err")
    exAt,           \* extraction: the entries of the archive the loop has passed
    gwPc,           \* gateway, per connection: "off", "idle", "dispatch",
                    \* "blocked", "overdue", "done", "cut"
    req,            \* gateway, per connection: the request being handled,
                    \* [method, path, body]
    rsp,            \* gateway, per connection: the response as the client receives it
    ran,            \* gateway, per connection: the handler function that ran
    sent,           \* gateway, per connection: what was sent to the engine
    fwd,            \* gateway, per connection: the request the engine was sent
    engAns,         \* gateway, per connection: what the engine answered to that
    modelName,      \* Server.modelName (0: no server constructed)
    srv,            \* Server.port and Server.backendURL
    cfg,            \* cmdRun's Config: [port, backendPort]
    stream,         \* one streamed response passing through the proxy: what
                    \* the engine has written, what the proxy holds, what
                    \* the client has received
    rel,            \* one findRelease call: platform, the answer of the
                    \* release API, and the result
    reg             \* the model Registry: its entries, and the last call
                    \* of Add or Remove with what it returned

vars == << pc, exitStatus, mcmd, procs, ready, readyAt, spawned, now, wrDeadline,
           wrStart, wakeAt, resp, wrResult, probes, wrHung, wrDied,
           stopStreak, waitState, registered, sigPending,
           sigAfterSpawn, sigHandled, served,
           failedStep, sigAtFail, modelPath, backendOk, repoID,
           fs, fsAtCall, netReqs, ebResult, exAt,
           gwPc, req, rsp, ran, sent, fwd, engAns, modelName, srv, cfg, stream, rel, reg >>

\* the variables of one WaitReady call
wrVars == << wrDeadline, wrStart, wakeAt, resp, wrResult, probes, wrHung, wrDied >>
\* the variables of the signal machinery
sigVars == << registered, sigPending, sigAfterSpawn, sigHandled >>
\* what cmdRun has done before Start
runVars == << failedStep, sigAtFail, modelPath, backendOk, repoID >>
\* the variables of EnsureBackend
provVars == << fs, fsAtCall, netReqs, ebResult, exAt >>
\* the variables of the connections of the gateway server
connVars == << gwPc, req, rsp, ran, sent, fwd, engAns >>
\* the configuration: cmdRun's Config and the fields of the Server
confVars == << modelName, srv, cfg >>
\* the variables of the gateway server
gwVars == << connVars, confVars >>
\* the variables of the components the supervisor's operations do not touch
extVars == << provVars, gwVars, stream, rel, reg >>
\* the variables of the supervisor and of cmdRun
supVars == << exitStatus, mcmd, procs, ready, readyAt, spawned, now, wrVars, stopStreak,
              waitState, sigVars, served, runVars >>

\* no binary, no archive, no temporary download file
NoFiles == [bin |-> "absent", zip |-> "absent", tmp |-> "absent"]

\* the names a served model can have (the repository id of the -model flag)
ModelNames == 1..MaxModels

\* the connections on which the gateway handles requests concurrently
Conns == {"c1", "c2"}

\* no request
NoReq == [method |-> "", path |-> "", body |-> 0]

\* no streamed response
NoStream ==
    [n |-> 0, emitted |-> 0, pipe |-> << >>, buf |-> << >>, deliv |-> << >>,
     ended |-> FALSE, eof |-> FALSE, now |-> 0, lastEmit |-> 0, bufAt |-> 0,
     staggered |-> TRUE]

\* no findRelease call
NoRel ==
    [goos |-> "", goarch |-> "", fetch |-> "", assets |-> << >>,
     out |-> [done |-> FALSE, err |-> "", at |-> 0]]

\* no entry
NoEntry == [id |-> 0, repoID |-> 0, filename |-> 0]

\* the files of entries: two, so that an entry can replace another of the
\* same id and repo id
Filenames == {1, 2}

\* the model the run command is given, and the file its download selects
RunRepos == {1}

RunFilenames == {1}

\* the file of the entry that an earlier run has registered for the model
CachedFilename == 2

\* the entry that cmdRun registers for a downloaded model: its ID is
\* repoID + "/" + selected.Filename
EntryID(r, f) == (r - 1) * Cardinality(Filenames) + f

RunEntry(r, f) == [id |-> EntryID(r, f), repoID |-> r, filename |-> f]

\* an empty Registry on which nothing has been called
NoReg ==
    [entries |-> << >>, op |-> "none", e |-> NoEntry, id |-> 0, err |-> "",
     before |-> << >>, unlinked |-> 0]

\* no Server
NoSrv == [port |-> 0, backendURL |-> [host |-> "", port |-> 0]]

\* a response of which nothing has been written
NoRsp ==
    [status |-> 0, hdrs |-> {}, ctype |-> "", loc |-> "", body |-> "none",
     errType |-> "", ids |-> << >>]

\* the outcomes of a request of the gateway to the engine other than a
\* status code: none yet, the connection is refused, no answer ever comes,
\* the connection is closed before an answer came
NoAnswer == 0
ConnErr == -1
Hang == -2
ConnClosed == -3

\* http.Get and the proxy's transport return an error
RequestFailed(a) == a \in {ConnErr, ConnClosed}

\* Manager{cfg: cfg}: cmd is nil
NilCmd == [set |-> FALSE, proc |-> 0, pstate |-> "nil", awaited |-> FALSE]

Running == { p \in Pids : procs[p] = "running" }

Min(a, b) == IF a < b THEN a ELSE b

Max(a, b) == IF a > b THEN a ELSE b

\* ------------------------------------------------- Manager.Start -------
\* exec.Command + cmd.Start: on success a new child runs and m.cmd holds
\* its handle; on failure m.cmd is a Cmd whose Process is nil.  m.cmd is
\* overwritten without looking at the previous value.
StartCmd(ok) ==
    /\ mcmd' = [set |-> TRUE, proc |-> IF ok THEN spawned + 1 ELSE 0, pstate |-> "nil",
                awaited |-> FALSE]
    /\ procs' = IF ok THEN [procs EXCEPT ![spawned + 1] = "running"] ELSE procs
    /\ spawned' = IF ok THEN spawned + 1 ELSE spawned
    /\ stopStreak' = 0

\* ------------------------------------------------- Manager.Stop --------
\* fault variant: the guard without its second conjunct
StopGuard_NoProcessCheck(c) == c.set

\* m.cmd != nil && m.cmd.Process != nil
StopGuard(c) == c.set /\ c.proc # 0

\* os.Process.Kill: SIGKILL ends a running child; it has no effect on a
\* child that has already terminated
ProcessKill(ps, p) == IF ps[p] = "running" THEN [ps EXCEPT ![p] = "killed"] ELSE ps

\* the ProcessState that Wait records for a terminated child
WaitStatus(st) == IF st = "exited" THEN "exited" ELSE "signaled"

\* a Stop call has returned
StopReturned(t) ==
    /\ pc' = [pc EXCEPT ![t] = "stop_done"]
    /\ stopStreak' = Min(2, stopStreak + 1)

StopCheck(t) ==
    /\ exitStatus = "running"
    /\ pc[t] = "stop_check"
    /\ IF StopGuard(mcmd)
         THEN /\ pc' = [pc EXCEPT ![t] = "stop_kill"]
              /\ UNCHANGED stopStreak
         ELSE StopReturned(t)
    /\ UNCHANGED << exitStatus, mcmd, procs, ready, readyAt, spawned, now, wrVars, sigVars, served, runVars, waitState, extVars >>

\* m.cmd.Process.Kill(); a nil m.cmd or a nil Process is a nil dereference
StopKill(t) ==
    /\ exitStatus = "running"
    /\ pc[t] = "stop_kill"
    /\ IF mcmd.set /\ mcmd.proc # 0
         THEN /\ procs' = ProcessKill(procs, mcmd.proc)
              /\ pc' = [pc EXCEPT ![t] = "stop_wait"]
         ELSE /\ pc' = [pc EXCEPT ![t] = "stop_panic"]
              /\ UNCHANGED procs
    /\ UNCHANGED << exitStatus, mcmd, ready, readyAt, spawned, now, wrVars, stopStreak, sigVars, served, runVars, waitState, extVars >>

\* Cmd.Wait: if c.ProcessState != nil it returns "Wait was already called",
\* an error that Stop ignores
StopWait(t) ==
    /\ exitStatus = "running"
    /\ pc[t] = "stop_wait"
    /\ IF mcmd.pstate # "nil"
         THEN StopReturned(t)
         ELSE /\ pc' = [pc EXCEPT ![t] = "stop_reap"]
              /\ UNCHANGED stopStreak
    /\ UNCHANGED << exitStatus, mcmd, procs, ready, readyAt, spawned, now, wrVars, sigVars, served, runVars, waitState, extVars >>

\* c.Process.Wait() can return: the child has terminated, or another
\* waiter has reaped it; it blocks on a running child
WaitCanReturn(c, ps) == ps[c.proc] # "running"

\* Cmd.Wait: state, err := c.Process.Wait().  A terminated child is reaped
\* and its state returned; for a child that another waiter has reaped the
\* call fails and state is nil
StopReap(t) ==
    /\ exitStatus = "running"
    /\ pc[t] = "stop_reap"
    /\ WaitCanReturn(mcmd, procs)
    /\ IF procs[mcmd.proc] \in {"exited", "crashed", "killed"}
         THEN /\ waitState' = [waitState EXCEPT ![t] = WaitStatus(procs[mcmd.proc])]
              /\ procs' = [procs EXCEPT ![mcmd.proc] = "reaped"]
         ELSE /\ waitState' = [waitState EXCEPT ![t] = "nil"]
              /\ UNCHANGED procs
    /\ pc' = [pc EXCEPT ![t] = "stop_store"]
    /\ UNCHANGED << exitStatus, mcmd, ready, readyAt, spawned, now, wrVars, stopStreak, sigVars, served, runVars, extVars >>

\* Cmd.Wait: c.ProcessState = state, whatever Process.Wait has returned
StopStore(t) ==
    /\ exitStatus = "running"
    /\ pc[t] = "stop_store"
    /\ mcmd' = [mcmd EXCEPT !.pstate = waitState[t]]
    /\ waitState' = [waitState EXCEPT ![t] = "none"]
    /\ pc' = [pc EXCEPT ![t] = "stop_await"]
    /\ UNCHANGED << exitStatus, procs, ready, readyAt, spawned, now, wrVars, stopStreak, sigVars, served, runVars, extVars >>

\* Cmd.Wait: the result of the goroutine that copies the child's output is
\* received.  Start sets Stdout and Stderr to io.Discard unless cfg.Verbose,
\* so there is such a goroutine and one result: a waiter that comes after
\* another has received it blocks for ever; with cfg.Verbose there is
\* nothing to receive.  Then Wait returns, and Stop with it
StopAwait(t) ==
    /\ exitStatus = "running"
    /\ pc[t] = "stop_await"
    /\ \E blocks \in (IF mcmd.awaited THEN BOOLEAN ELSE {FALSE}) :
         IF blocks
           THEN /\ pc' = [pc EXCEPT ![t] = "stop_hung"]
                /\ UNCHANGED << mcmd, stopStreak >>
           ELSE /\ mcmd' = [mcmd EXCEPT !.awaited = TRUE]
                /\ StopReturned(t)
    /\ UNCHANGED << exitStatus, procs, ready, readyAt, spawned, now, wrVars, sigVars, served, runVars, waitState, extVars >>

\* ------------------------------------------------- Manager.WaitReady ---
\* the possible answers of the health endpoint to one http.Get: a running
\* engine that has finished loading answers 200; one that is still loading
\* answers 503, refuses the connection, or accepts it and never answers;
\* with no running engine the connection is refused
ProbeOutcomes ==
    IF Running = {} THEN {"connerr"}
    ELSE UNION { IF p \in ready THEN {"s200"} ELSE {"s503", "connerr", "hang"}
                 : p \in Running }

\* fault variant: any response received counts as success
ProbeSucceeded_AnyResponse(r) == r \in {"s200", "s503"}

\* err == nil && resp.StatusCode == http.StatusOK
ProbeSucceeded(r) == r = "s200"

\* m.cmd.ProcessState != nil && m.cmd.ProcessState.Exited()
ProcessExited(c) == c.pstate = "exited"

\* fault variant: the sleep lasts two intervals
WakeTime_Double(t) == t + 2 * PollInterval

\* time.Sleep(500 * time.Millisecond)
WakeTime(t) == t + PollInterval

\* time.Now().Before(deadline)
BeforeDeadline(t, d) == t < d

\* the engine m.cmd refers to has terminated on its own, before it finished
\* loading, and nobody has waited for it
EngineDiedUnready ==
    /\ mcmd.proc # 0
    /\ procs[mcmd.proc] \in {"exited", "crashed"}
    /\ mcmd.proc \notin ready

\* the call: deadline := time.Now().Add(timeout)
WaitReadyCall(t, timeout) ==
    /\ pc' = [pc EXCEPT ![t] = "wr_check"]
    /\ wrStart' = now
    /\ wrDeadline' = now + timeout
    /\ wakeAt' = now
    /\ resp' = "none"
    /\ wrResult' = "none"
    /\ probes' = 0
    /\ wrHung' = FALSE
    /\ wrDied' = FALSE

\* the loop condition, and the return after the loop
WRCheck(t) ==
    /\ exitStatus = "running"
    /\ pc[t] = "wr_check"
    /\ IF BeforeDeadline(now, wrDeadline)
         THEN /\ pc' = [pc EXCEPT ![t] = "wr_probe"]
              /\ UNCHANGED wrResult
         ELSE /\ pc' = [pc EXCEPT ![t] = "wr_done"]
              /\ wrResult' = "timeout"
    /\ UNCHANGED << exitStatus, mcmd, procs, ready, readyAt, spawned, now, wrDeadline,
                    wrStart, wakeAt, resp, probes, wrHung, wrDied,
                    stopStreak, sigVars, served, runVars, waitState, extVars >>

\* http.Get(healthURL) with the default client, which has no timeout
WRProbe(t) ==
    /\ exitStatus = "running"
    /\ pc[t] = "wr_probe"
    /\ \E o \in ProbeOutcomes :
         IF o = "hang"
           THEN /\ pc' = [pc EXCEPT ![t] = "wr_blocked"]
                /\ wrHung' = TRUE
                /\ UNCHANGED resp
           ELSE /\ pc' = [pc EXCEPT ![t] = "wr_eval"]
                /\ resp' = o
                /\ UNCHANGED wrHung
    /\ probes' = Min(probes + 1, MaxProbes)
    /\ wrDied' = EngineDiedUnready
    /\ UNCHANGED << exitStatus, mcmd, procs, ready, readyAt, spawned, now, wrDeadline,
                    wrStart, wakeAt, wrResult, stopStreak, sigVars, served, runVars, waitState, extVars >>

\* how a blocked http.Get can return: with the answer that an engine still
\* running sends in the end, with an error when that engine closes the
\* connection, and with an error once no engine runs
LateOutcomes == ProbeOutcomes \ {"hang"}

\* a blocked http.Get returns, however late: the deadline is not looked at
\* before the loop condition is evaluated again
WRUnblock(t) ==
    /\ exitStatus = "running"
    /\ pc[t] = "wr_blocked"
    /\ pc' = [pc EXCEPT ![t] = "wr_eval"]
    /\ \E o \in LateOutcomes : resp' = o
    /\ UNCHANGED << exitStatus, mcmd, procs, ready, readyAt, spawned, now, wrDeadline,
                    wrStart, wakeAt, wrResult, probes, wrHung, wrDied, stopStreak, sigVars, served, runVars, waitState, extVars >>

\* the Cmd.Wait of another task's Stop has stored m.cmd.ProcessState:
\* nothing orders that write before a read made by task t
RacingWrite(t) ==
    \E u \in Tasks \ {t} : pc[u] \in {"stop_await", "stop_hung", "stop_done"} /\ mcmd.pstate # "nil"

\* what the process check of task t can evaluate to.  A read that races
\* with the write of another task may see the old nil pointer, the stored
\* state, or the pointer ahead of the fields behind it (a zero status,
\* for which Exited() is true)
ExitedReads(t) == IF RacingWrite(t) THEN BOOLEAN ELSE {ProcessExited(mcmd)}

\* the loop body after http.Get: status check, process check, sleep
WREval(t) ==
    /\ exitStatus = "running"
    /\ pc[t] = "wr_eval"
    /\ IF ProbeSucceeded(resp)
         THEN /\ pc' = [pc EXCEPT ![t] = "wr_done"]
              /\ wrResult' = "ok"
              /\ UNCHANGED wakeAt
         ELSE IF ~mcmd.set
         THEN /\ pc' = [pc EXCEPT ![t] = "wr_panic"]
              /\ UNCHANGED << wrResult, wakeAt >>
         ELSE \E ex \in ExitedReads(t) :
              IF ex
                THEN /\ pc' = [pc EXCEPT ![t] = "wr_done"]
                     /\ wrResult' = "exited"
                     /\ UNCHANGED wakeAt
                ELSE /\ pc' = [pc EXCEPT ![t] = "wr_sleep"]
                     /\ wakeAt' = WakeTime(now)
                     /\ UNCHANGED wrResult
    /\ UNCHANGED << exitStatus, mcmd, procs, ready, readyAt, spawned, now, wrDeadline,
                    wrStart, resp, probes, wrHung, wrDied,
                    stopStreak, sigVars, served, runVars, waitState, extVars >>

\* the instant t lies where the clock of the current WaitReady call is
\* followed tick by tick
Followed(t) ==
    \/ wrDeadline - wrStart <= Window
    \/ (MidFrom <= t - wrStart /\ t - wrStart < MidTo)
    \/ wrDeadline - t <= LateWindow

\* the first instant from t on at which the clock is followed again
NextFollowed(t) ==
    IF t - wrStart < MidFrom THEN wrStart + MidFrom ELSE wrDeadline - LateWindow

\* the sleep that was to end at the instant w can be over at the clock
\* reading t: the instant has come, or t stands for a stretch of instants
\* that is longer than the sleep
SleepOver(t, w) == t >= w \/ ~Followed(t)

\* time.Sleep returns
WRWake(t) ==
    /\ exitStatus = "running"
    /\ pc[t] = "wr_sleep"
    /\ SleepOver(now, wakeAt)
    /\ pc' = [pc EXCEPT ![t] = "wr_check"]
    /\ UNCHANGED << exitStatus, mcmd, procs, ready, readyAt, spawned, now, wrVars, stopStreak, sigVars, served, runVars, waitState, extVars >>

\* time passes while WaitReady sleeps or is blocked in a probe; a blocked
\* probe can last any time.  Where the clock is followed it advances by a
\* tick; from a stretch where it is not it moves on to the next instant
\* that is followed
ClockTick ==
    /\ exitStatus = "running"
    /\ \/ /\ pc["main"] = "wr_sleep" /\ (Followed(now) => now < wakeAt)
       \/ /\ pc["main"] = "wr_blocked" /\ now < wrDeadline + Overrun
    /\ now' = IF Followed(now) THEN now + Tick ELSE NextFollowed(now)
    /\ UNCHANGED << pc, exitStatus, mcmd, procs, ready, readyAt, spawned, wrVars, stopStreak, sigVars, served, runVars, waitState, extVars >>

\* ------------------------------------------------- the engine ----------
\* the engine finishes loading the model: /health answers 200 from now on
EngineReady(p) ==
    /\ procs[p] = "running"
    /\ p \notin ready
    /\ ready' = ready \cup {p}
    /\ readyAt' = IF readyAt = -1 THEN now ELSE readyAt
    /\ UNCHANGED << pc, exitStatus, mcmd, procs, spawned, now, wrVars, stopStreak, sigVars, served, runVars, waitState, extVars >>

\* the engine terminates on its own: it exits, or it crashes on a signal
EngineExits(p) ==
    /\ procs[p] = "running"
    /\ \E how \in {"exited", "crashed"} : procs' = [procs EXCEPT ![p] = how]
    /\ UNCHANGED << pc, exitStatus, mcmd, ready, readyAt, spawned, now, wrVars, stopStreak, sigVars, served, runVars, waitState, extVars >>

\* ------------------------------------------------- initial state -------
InitBase ==
    /\ exitStatus = "running"
    /\ mcmd = NilCmd
    /\ procs = [p \in Pids |-> "unborn"]
    /\ ready = {}
    /\ readyAt = -1
    /\ spawned = 0
    /\ now = 0
    /\ wrDeadline = 0
    /\ wrStart = 0
    /\ wakeAt = 0
    /\ resp = "none"
    /\ wrResult = "none"
    /\ probes = 0
    /\ wrHung = FALSE
    /\ wrDied = FALSE
    /\ stopStreak = 0
    /\ waitState = [t \in Tasks |-> "none"]
    /\ registered = FALSE
    /\ sigPending = FALSE
    /\ sigAfterSpawn = FALSE
    /\ sigHandled = FALSE
    /\ served = FALSE
    /\ failedStep = "none"
    /\ sigAtFail = FALSE
    /\ modelPath = ""
    /\ backendOk = FALSE
    /\ fsAtCall = NoFiles
    /\ netReqs = 0
    /\ ebResult = "none"
    /\ exAt = 0
    /\ gwPc = [c \in Conns |-> "off"]
    /\ req = [c \in Conns |-> NoReq]
    /\ rsp = [c \in Conns |-> NoRsp]
    /\ ran = [c \in Conns |-> "none"]
    /\ sent = [c \in Conns |-> "none"]
    /\ fwd = [c \in Conns |-> NoReq]
    /\ engAns = [c \in Conns |-> NoAnswer]
    /\ modelName = 0
    /\ srv = NoSrv

\* no streamed response and no findRelease call
InitCommon ==
    /\ InitBase
    /\ stream = NoStream
    /\ rel = NoRel
    /\ reg = NoReg
    /\ repoID = 0

\* the steps of Stop and WaitReady taken by task t
StopSteps(t) ==
    StopCheck(t) \/ StopKill(t) \/ StopWait(t) \/ StopReap(t) \/ StopStore(t) \/ StopAwait(t)

WaitReadySteps(t) == WRCheck(t) \/ WRProbe(t) \/ WRUnblock(t) \/ WREval(t) \/ WRWake(t)

EngineSteps == \E p \in Pids : EngineReady(p) \/ EngineExits(p)

\* ------------------------------------------------- SpecApi -------------
\* cmd.Start can execute the file at binPath: it exists and is not empty
Executable(f) == f \notin {"absent", "empty"}

\* one caller, any sequence of Start, WaitReady and Stop on one Manager
\* whose engine binary is installed
InitApi ==
    /\ InitCommon
    /\ fs = [NoFiles EXCEPT !.bin = "complete"]
    /\ cfg = NewConfig
    /\ pc = [t \in Tasks |-> IF t = "main" THEN "idle" ELSE "h_none"]

ApiStart ==
    /\ pc["main"] = "idle"
    /\ \E ok \in BOOLEAN :
         /\ ok => spawned < MaxStarts
         /\ ok => Executable(fs.bin)
         /\ StartCmd(ok)
    /\ UNCHANGED << pc, exitStatus, ready, readyAt, now, wrVars, sigVars, served, runVars, waitState, extVars >>

ApiWaitReady ==
    /\ pc["main"] = "idle"
    /\ \E timeout \in Timeouts : WaitReadyCall("main", timeout)
    /\ UNCHANGED << exitStatus, mcmd, procs, ready, readyAt, spawned, now,
                    stopStreak, sigVars, served, runVars, waitState, extVars >>

ApiStop ==
    /\ pc["main"] = "idle"
    /\ pc' = [pc EXCEPT !["main"] = "stop_check"]
    /\ UNCHANGED << exitStatus, mcmd, procs, ready, readyAt, spawned, now, wrVars, stopStreak, sigVars, served, runVars, waitState, extVars >>

\* the call returns to the caller.  The locals of WaitReady are gone, and
\* the clock, of which only differences are ever read, is set back to 0
ApiReturn ==
    /\ pc["main"] \in {"wr_done", "stop_done"}
    /\ pc' = [pc EXCEPT !["main"] = "idle"]
    /\ now' = 0
    /\ readyAt' = IF readyAt = -1 THEN -1 ELSE 0
    /\ wrDeadline' = 0
    /\ wrStart' = 0
    /\ wakeAt' = 0
    /\ resp' = "none"
    /\ wrResult' = "none"
    /\ probes' = 0
    /\ wrHung' = FALSE
    /\ wrDied' = FALSE
    /\ UNCHANGED << exitStatus, mcmd, procs, ready, spawned,
                    stopStreak, sigVars, served, runVars, waitState, extVars >>

NextApi ==
    \/ ApiStart
    \/ ApiWaitReady
    \/ ApiStop
    \/ ApiReturn
    \/ StopSteps("main")
    \/ WaitReadySteps("main")
    \/ ClockTick
    \/ EngineSteps

SpecApi == InitApi /\ [][NextApi]_vars

\* ------------------------------------------------- EnsureBackend -------
\* SpecProv: one caller issuing EnsureBackend calls, each of which may be
\* interrupted (the program is killed) at any point.
\* A file is "absent", "partial" (created, its content not, or not fully,
\* written) or holds content: the binary "complete", an archive one of
\* ArchiveKinds.
\* what a downloaded release archive can turn out to be: one that holds
\* llama-server, one that does not, one that cannot be opened as an
\* archive, and a file of zero bytes
ArchiveKinds == {"good", "noserver", "corrupt", "empty", "tartail", "twice"}

\* the entries of an archive that can be opened, in the order the
\* extraction loop meets them: "server" is a file whose base name is
\* llama-server, "serverdir" a directory of that base name, "other" any
\* other entry, "bad" a place where the tar stream cannot be read further.
\* Kind "tartail" is a .tar.gz damaged after its llama-server entry, kind
\* "twice" an archive with a second entry of the base name llama-server
ArchiveEntries(k) ==
    IF k = "good" THEN << "other", "server", "other" >>
    ELSE IF k = "noserver" THEN << "other" >>
    ELSE IF k = "tartail" THEN << "server", "bad" >>
    ELSE IF k = "twice" THEN << "server", "serverdir" >>
    ELSE << >>

\* zip.OpenReader, or os.Open and gzip.NewReader, succeed
Opens(k) == k \notin {"absent", "partial", "corrupt", "empty"}

ProvPcs == {"eb_stat", "eb_find", "dl_stat", "dl_get", "dl_copy", "dl_rename",
            "ex_open", "ex_next", "ex_create", "ex_copy", "eb_finish"}

\* fault variant: the binary is never found
FileExists_Never(f) == FALSE

\* _, err := os.Stat(path); err == nil
FileExists(f) == f # "absent"

\* fault variant: an existing destination is kept whatever its size
DownloadSkips_AnyFile(f) == FileExists(f)

\* DownloadFile: os.Stat(destPath) succeeds and info.Size() > 0
DownloadSkips(f) == FileExists(f) /\ f \notin {"partial", "empty"}

\* a step of EnsureBackend of the main task, from position `from`
ProvAt(from) ==
    /\ exitStatus = "running"
    /\ pc["main"] = from

ProvGoto(to) == pc' = [pc EXCEPT !["main"] = to] /\ UNCHANGED ebResult

\* EnsureBackend returns nil ("ok") or an error ("err")
EBReturn(res) ==
    /\ pc' = [pc EXCEPT !["main"] = "eb_done"]
    /\ ebResult' = res

\* EnsureBackend is entered
EBCall ==
    /\ pc' = [pc EXCEPT !["main"] = "eb_stat"]
    /\ fsAtCall' = fs
    /\ netReqs' = 0
    /\ ebResult' = "none"
    /\ exAt' = 0

\* the call of mgr.EnsureBackend()
EnsureBackendCall ==
    /\ exitStatus = "running"
    /\ pc["main"] \in {"idle", "eb_done", "eb_killed"}
    /\ EBCall
    /\ UNCHANGED << fs, supVars, gwVars, stream, rel, reg >>

\* if _, err := os.Stat(binPath); err == nil { return nil }
EBStat ==
    /\ ProvAt("eb_stat")
    /\ IF FileExists(fs.bin) THEN EBReturn("ok") ELSE ProvGoto("eb_find")
    /\ UNCHANGED << fs, fsAtCall, netReqs, exAt, supVars, gwVars, stream, rel, reg >>

\* m.findRelease(): one request to the releases API
EBFindRelease ==
    /\ ProvAt("eb_find")
    /\ netReqs' = netReqs + 1
    /\ \E ok \in BOOLEAN : IF ok THEN ProvGoto("dl_stat") ELSE EBReturn("err")
    /\ UNCHANGED << fs, fsAtCall, exAt, supVars, gwVars, stream, rel, reg >>

\* DownloadFile: the skip on an existing non-empty destination; os.MkdirAll
DLStat ==
    /\ ProvAt("dl_stat")
    /\ IF DownloadSkips(fs.zip)
         THEN ProvGoto("ex_open")
         ELSE \E ok \in BOOLEAN : IF ok THEN ProvGoto("dl_get") ELSE EBReturn("err")
    /\ UNCHANGED << fs, fsAtCall, netReqs, exAt, supVars, gwVars, stream, rel, reg >>

\* fault variant: the temporary file is left where it is
RemoveTmp_Skipped(f) == f

\* DownloadFile: os.Remove(tmpPath) after a failed copy or rename
RemoveTmp(f) == [f EXCEPT !.tmp = "absent"]

\* DownloadFile: http.Get(url), the status check, os.Create(tmpPath)
DLGet ==
    /\ ProvAt("dl_get")
    /\ netReqs' = netReqs + 1
    /\ \E r \in {"ok", "fail", "nocreate"} :
         IF r = "ok"
           THEN /\ fs' = [fs EXCEPT !.tmp = "partial"]
                /\ ProvGoto("dl_copy")
           ELSE /\ EBReturn("err")
                /\ UNCHANGED fs
    /\ UNCHANGED << fsAtCall, exAt, supVars, gwVars, stream, rel, reg >>

\* DownloadFile: io.Copy(out, resp.Body); on an error os.Remove(tmpPath)
DLCopy ==
    /\ ProvAt("dl_copy")
    /\ \E k \in ArchiveKinds \cup {"writeErr"} :
         IF k = "writeErr"
           THEN /\ fs' = RemoveTmp(fs)
                /\ EBReturn("err")
           ELSE /\ fs' = [fs EXCEPT !.tmp = k]
                /\ ProvGoto("dl_rename")
    /\ UNCHANGED << fsAtCall, netReqs, exAt, supVars, gwVars, stream, rel, reg >>

\* DownloadFile: os.Rename(tmpPath, destPath); on an error os.Remove(tmpPath)
DLRename ==
    /\ ProvAt("dl_rename")
    /\ \E ok \in BOOLEAN :
         IF ok
           THEN /\ fs' = [fs EXCEPT !.zip = fs.tmp, !.tmp = "absent"]
                /\ ProvGoto("ex_open")
           ELSE /\ fs' = RemoveTmp(fs)
                /\ EBReturn("err")
    /\ UNCHANGED << fsAtCall, netReqs, exAt, supVars, gwVars, stream, rel, reg >>

\* extractFromZip / extractFromTarGz: the archive is opened
EXOpen ==
    /\ ProvAt("ex_open")
    /\ IF Opens(fs.zip) THEN ProvGoto("ex_next") ELSE EBReturn("err")
    /\ exAt' = 0
    /\ UNCHANGED << fs, fsAtCall, netReqs, supVars, gwVars, stream, rel, reg >>

\* found: an entry named llama-server has been extracted
Found(k, n) == \E j \in 1..n : ArchiveEntries(k)[j] \in {"server", "serverdir"}

\* the loop over the entries: past the last one it ends, with an error
\* unless found; tr.Next() fails on a damaged stream; an entry whose base
\* name is llama-server is extracted; any other is passed
EXNext ==
    /\ ProvAt("ex_next")
    /\ LET es == ArchiveEntries(fs.zip)
       IN  IF exAt >= Len(es)
             THEN /\ IF Found(fs.zip, exAt) THEN ProvGoto("eb_finish") ELSE EBReturn("err")
                  /\ UNCHANGED exAt
           ELSE IF es[exAt + 1] = "bad"
             THEN EBReturn("err") /\ UNCHANGED exAt
           ELSE IF es[exAt + 1] = "other"
             THEN ProvGoto("ex_next") /\ exAt' = exAt + 1
           ELSE ProvGoto("ex_create") /\ UNCHANGED exAt
    /\ UNCHANGED << fs, fsAtCall, netReqs, supVars, gwVars, stream, rel, reg >>

\* extractZipFile / extractFromTarGz: os.Create(serverDest) makes the file
\* empty, whatever it held
EXCreate ==
    /\ ProvAt("ex_create")
    /\ \E ok \in BOOLEAN :
         IF ok
           THEN /\ fs' = [fs EXCEPT !.bin = "empty"]
                /\ ProvGoto("ex_copy")
           ELSE /\ EBReturn("err")
                /\ UNCHANGED fs
    /\ UNCHANGED << fsAtCall, netReqs, exAt, supVars, gwVars, stream, rel, reg >>

\* what a complete copy of the entry leaves at serverDest: a directory
\* entry has no content
Extracted(entry) == IF entry = "serverdir" THEN "empty" ELSE "complete"

\* extractZipFile / extractFromTarGz: io.Copy(out, rc), a loop of reads and
\* writes: it writes a first part of the entry, it comes to the end of the
\* entry, after which the loop over the entries goes on, or it fails, and
\* the error is returned with what has been written left at serverDest
EXCopy ==
    /\ ProvAt("ex_copy")
    /\ LET entry == ArchiveEntries(fs.zip)[exAt + 1]
       IN  \E how \in {"more", "done", "err"} :
             IF how = "more"
               THEN /\ entry = "server" /\ fs.bin = "empty"
                    /\ fs' = [fs EXCEPT !.bin = "partial"]
                    /\ ProvGoto("ex_copy")
                    /\ UNCHANGED exAt
             ELSE IF how = "done"
               THEN /\ fs' = [fs EXCEPT !.bin = Extracted(entry)]
                    /\ exAt' = exAt + 1
                    /\ ProvGoto("ex_next")
             ELSE /\ EBReturn("err")
                  /\ UNCHANGED << fs, exAt >>
    /\ UNCHANGED << fsAtCall, netReqs, supVars, gwVars, stream, rel, reg >>

\* os.Remove(zipPath); os.Chmod(binPath, 0755); return nil
EBFinish ==
    /\ ProvAt("eb_finish")
    /\ fs' = [fs EXCEPT !.zip = "absent"]
    /\ EBReturn("ok")
    /\ UNCHANGED << fsAtCall, netReqs, exAt, supVars, gwVars, stream, rel, reg >>

\* the program is killed while EnsureBackend is running
ProvKill ==
    /\ exitStatus = "running"
    /\ pc["main"] \in ProvPcs
    /\ pc' = [pc EXCEPT !["main"] = "eb_killed"]
    /\ UNCHANGED << fs, fsAtCall, netReqs, ebResult, exAt, supVars, gwVars, stream, rel, reg >>

\* the binary is installed or not when the program is first run
InitProv ==
    /\ InitCommon
    /\ pc = [t \in Tasks |-> IF t = "main" THEN "idle" ELSE "h_none"]
    /\ fs \in { [NoFiles EXCEPT !.bin = b] : b \in {"absent", "complete"} }
    /\ cfg = NewConfig

\* the steps of EnsureBackend
EnsureBackendSteps ==
    \/ EBStat
    \/ EBFindRelease
    \/ DLStat
    \/ DLGet
    \/ DLCopy
    \/ DLRename
    \/ EXOpen
    \/ EXNext
    \/ EXCreate
    \/ EXCopy
    \/ EBFinish

NextProv ==
    \/ EnsureBackendCall
    \/ EnsureBackendSteps
    \/ ProvKill

SpecProv == InitProv /\ [][NextProv]_vars


\* ------------------------------------------------- the gateway --------
\* SpecGw: the gateway server, constructed by cmdRun after WaitReady has
\* succeeded, handles requests on concurrent connections, each in its own
\* goroutine, while the engine runs, and goes on handling requests after
\* the engine has terminated.
Methods == {"GET", "POST", "OPTIONS", "HEAD", "PUT", "DELETE", "CONNECT"}

\* the routes registered with s.cors(s.proxyPost)
ProxyPaths == {"/v1/chat/completions", "/v1/completions", "/v1/embeddings"}

\* the routes registered through s.cors
CorsPaths == ProxyPaths \cup {"/v1/models"}

\* request paths that are not in canonical form: each would match a
\* registered pattern once cleaned
UncleanPaths == {"/v1//models", "/v1/./completions"}

\* the request paths: the registered patterns, one path that only the
\* catch-all pattern "/" matches, and the paths not in canonical form
Paths == CorsPaths \cup {"/health", "/", "/v1/other"} \cup UncleanPaths

\* the mux's cleanPath on the request paths: path.Clean removes empty and
\* "." elements; a path in canonical form is returned as it is
CleanPath(p) ==
    IF p = "/v1//models" THEN "/v1/models"
    ELSE IF p = "/v1/./completions" THEN "/v1/completions"
    ELSE p

\* the three headers the cors wrapper sets
CorsHeaderNames == {"Access-Control-Allow-Origin", "Access-Control-Allow-Methods",
                    "Access-Control-Allow-Headers"}

\* the status codes of the engine's answers
EngineStatuses == {200, 400, 500, 503}

\* what a request sent to the engine comes back with: a refused connection
\* when no engine runs, otherwise a status, or nothing at all
EngineAnswers == IF Running = {} THEN {ConnErr} ELSE EngineStatuses \cup {Hang}

\* fault variant: every path under /v1/ but the model list goes to the proxy
Route_ProxyPrefix(m, p) ==
    IF m # "CONNECT" /\ CleanPath(p) # p THEN "redirect"
    ELSE IF p \in ProxyPaths \cup {"/v1/other"} THEN "proxyPost"
    ELSE IF p = "/v1/models" THEN "handleModels"
    ELSE IF p = "/health" THEN "handleHealth"
    ELSE "handleRoot"

\* the mux: a path that is not in canonical form gets the mux's own
\* redirect handler, unless the method is CONNECT, whose path the mux does
\* not clean; any other request gets the handler function registered for
\* the pattern its path matches as it stands, which for a path not in
\* canonical form is the catch-all "/"
Route(m, p) ==
    IF m # "CONNECT" /\ CleanPath(p) # p THEN "redirect"
    ELSE IF p \in ProxyPaths THEN "proxyPost"
    ELSE IF p = "/v1/models" THEN "handleModels"
    ELSE IF p = "/health" THEN "handleHealth"
    ELSE "handleRoot"

\* fault variant: no request is taken for a preflight
IsPreflight_Never(m) == FALSE

\* cors: r.Method == http.MethodOptions
IsPreflight(m) == m = "OPTIONS"

\* the response writer as the handler function of the route receives it:
\* on a wrapped route the cors wrapper has set its three headers
Writer(p) == IF p \in CorsPaths THEN [NoRsp EXCEPT !.hdrs = CorsHeaderNames] ELSE NoRsp

\* the cors wrapper calls the wrapped handler function
PassesCors(r) == ~(r.path \in CorsPaths /\ IsPreflight(r.method))

\* w.Header().Set("Content-Type", "application/json")
JsonHeader(w) ==
    [w EXCEPT !.hdrs = w.hdrs \cup {"Content-Type"}, !.ctype = "application/json"]

\* http.NotFound(w, r): http.Error sets Content-Type and
\* X-Content-Type-Options, then writes the status and the text
NotFound(w) ==
    [w EXCEPT !.hdrs = w.hdrs \cup {"Content-Type", "X-Content-Type-Options"},
              !.ctype = "text/plain; charset=utf-8",
              !.status = 404, !.body = "notfound"]

\* the mux's redirect handler, http.Redirect(w, r, url, 301): Location is
\* the cleaned path; for GET and HEAD it sets Content-Type; it writes the
\* status, and then a short HTML note for GET only
Redirect(w, r) ==
    LET h == IF r.method \in {"GET", "HEAD"}
               THEN [w EXCEPT !.hdrs = w.hdrs \cup {"Location", "Content-Type"},
                              !.ctype = "text/html; charset=utf-8"]
               ELSE [w EXCEPT !.hdrs = w.hdrs \cup {"Location"}]
    IN  [h EXCEPT !.loc = CleanPath(r.path), !.status = 301,
                  !.body = IF r.method = "GET" THEN "moved" ELSE "empty"]

\* Server.writeError
WriteError(w, status, errType) ==
    [JsonHeader(w) EXCEPT !.status = status, !.body = "error", !.errType = errType]

\* fault variant: only GET is turned away
MethodAllowed_NotGet(m) == m # "GET"

\* proxyPost: r.Method == http.MethodPost
MethodAllowed(m) == m = "POST"

\* fault variant: the rejection carries another error type
MethodNotAllowed_ServerError(w) == WriteError(w, 405, "server_error")

\* proxyPost: s.writeError(w, http.StatusMethodNotAllowed, ..., "invalid_request_error")
MethodNotAllowed(w) == WriteError(w, 405, "invalid_request_error")

\* fault variant: the list has no entry
ModelList_Empty(name) == << >>

\* handleModels: Data: []ModelInfo{{ID: s.modelName, ...}}
ModelList(name) == << name >>

\* fault variant: the gateway answers 502 for an unreachable engine
BackendUnavailable_BadGateway(w) == WriteError(w, 502, "server_error")

\* handleHealth: s.writeError(w, http.StatusServiceUnavailable, ..., "server_error")
BackendUnavailable(w) == WriteError(w, 503, "server_error")

\* net/http sends no body in the response to a HEAD request: what the
\* handler writes to the body is discarded
OnWire(r, w) ==
    IF r.method = "HEAD"
      THEN [w EXCEPT !.body = "empty", !.errType = "", !.ids = << >>]
      ELSE w

\* fault variant: the response is kept in a field shared by the handlers
GwRespond_Shared(c, w) ==
    /\ rsp' = [d \in Conns |-> OnWire(req[c], w)]
    /\ gwPc' = [gwPc EXCEPT ![c] = "done"]

\* the handler on connection c has returned: the client has the response
GwRespond(c, w) ==
    /\ rsp' = [rsp EXCEPT ![c] = OnWire(req[c], w)]
    /\ gwPc' = [gwPc EXCEPT ![c] = "done"]

\* fault variant: a failed forward is answered as a success
ProxyRelay_OkOnError(w, a) ==
    IF RequestFailed(a)
      THEN [w EXCEPT !.status = 200, !.body = "empty"]
      ELSE [JsonHeader(w) EXCEPT !.status = a, !.body = "engine"]

\* the answer of the engine to a proxied request, as ReverseProxy relays it;
\* its default ErrorHandler answers 502 with no body when the engine cannot
\* be reached
ProxyRelay(w, a) ==
    IF RequestFailed(a)
      THEN [w EXCEPT !.status = 502, !.body = "empty"]
      ELSE [JsonHeader(w) EXCEPT !.status = a, !.body = "engine"]

\* the answer of the engine's /health as handleHealth relays it
HealthRelay(w, a) ==
    IF RequestFailed(a)
      THEN BackendUnavailable(w)
      ELSE [JsonHeader(w) EXCEPT !.status = a, !.body = "engine"]

\* the relay of the handler that sent the request
Relay(what, w, a) == IF what = "proxy" THEN ProxyRelay(w, a) ELSE HealthRelay(w, a)

\* the path of the backend URL: "http://127.0.0.1:<port>" has none
TargetPath == ""

\* the proxy's director joins the path of the target and of the request
JoinPath(a, b) == IF a = "" THEN b ELSE << a, b >>

\* fault variant: the model field is set to the advertised model name
ProxyForward_RewritesModel(r, name) ==
    [method |-> r.method, path |-> JoinPath(TargetPath, r.path), body |-> name]

\* s.proxy.ServeHTTP(w, r): the request as the engine receives it; the
\* director changes scheme and host, the body is streamed through
ProxyForward(r, name) ==
    [method |-> r.method, path |-> JoinPath(TargetPath, r.path), body |-> r.body]

\* http.Get(s.backendURL + "/health")
HealthForward == [method |-> "GET", path |-> "/health", body |-> 0]

\* the model field of a request body: 0 for none, or a model name, which
\* need not be the one the gateway advertises
Bodies == 0..MaxModels

\* the requests of clients: POST carries a body
Requests ==
    { [method |-> m, path |-> p, body |-> b] : m \in Methods, p \in Paths, b \in Bodies }
        \ { r \in [method : Methods, path : Paths, body : Bodies] :
              r.body # 0 /\ ~(r.method = "POST" /\ r.path \in ProxyPaths) }

GwAt(c, pos) ==
    /\ exitStatus = "running"
    /\ served
    /\ gwPc[c] = pos

\* a client connects and sends its request on connection c; the server
\* runs the handler of each connection in a goroutine of its own
GwRequest(c) ==
    /\ exitStatus = "running"
    /\ served
    /\ gwPc[c] = "idle"
    /\ \E r \in Requests : req' = [req EXCEPT ![c] = r]
    /\ gwPc' = [gwPc EXCEPT ![c] = "dispatch"]
    /\ rsp' = [rsp EXCEPT ![c] = NoRsp]
    /\ ran' = [ran EXCEPT ![c] = "none"]
    /\ sent' = [sent EXCEPT ![c] = "none"]
    /\ fwd' = [fwd EXCEPT ![c] = NoReq]
    /\ engAns' = [engAns EXCEPT ![c] = NoAnswer]
    /\ UNCHANGED << confVars, pc, supVars, provVars, stream, rel, reg >>

\* cors, for OPTIONS: the three headers, WriteHeader(204), return
GwPreflight(c) ==
    /\ GwAt(c, "dispatch")
    /\ ~PassesCors(req[c])
    /\ GwRespond(c, [Writer(req[c].path) EXCEPT !.status = 204, !.body = "empty"])
    /\ UNCHANGED << req, ran, sent, fwd, engAns, confVars, pc, supVars, provVars, stream, rel, reg >>

\* a request sent to the engine: it answers, refuses, or keeps the handler
\* waiting
GwAsk(c, what, r) ==
    /\ sent' = [sent EXCEPT ![c] = what]
    /\ fwd' = [fwd EXCEPT ![c] = r]
    /\ \E a \in EngineAnswers :
         IF a = Hang
           THEN /\ gwPc' = [gwPc EXCEPT ![c] = "blocked"]
                /\ UNCHANGED << rsp, engAns >>
           ELSE /\ engAns' = [engAns EXCEPT ![c] = a]
                /\ GwRespond(c, Relay(what, Writer(req[c].path), a))

\* proxyPost, behind cors
GwProxyPost(c) ==
    /\ GwAt(c, "dispatch")
    /\ Route(req[c].method, req[c].path) = "proxyPost"
    /\ PassesCors(req[c])
    /\ ran' = [ran EXCEPT ![c] = "proxyPost"]
    /\ IF MethodAllowed(req[c].method)
         THEN GwAsk(c, "proxy", ProxyForward(req[c], modelName))
         ELSE /\ GwRespond(c, MethodNotAllowed(Writer(req[c].path)))
              /\ UNCHANGED << sent, fwd, engAns >>
    /\ UNCHANGED << req, confVars, pc, supVars, provVars, stream, rel, reg >>

\* handleModels, behind cors
GwModels(c) ==
    /\ GwAt(c, "dispatch")
    /\ Route(req[c].method, req[c].path) = "handleModels"
    /\ PassesCors(req[c])
    /\ ran' = [ran EXCEPT ![c] = "handleModels"]
    /\ GwRespond(c, [JsonHeader(Writer(req[c].path)) EXCEPT
                        !.status = 200, !.body = "models", !.ids = ModelList(modelName)])
    /\ UNCHANGED << req, sent, fwd, engAns, confVars, pc, supVars, provVars, stream, rel, reg >>

\* handleHealth: http.Get(s.backendURL + "/health"), whatever the method
GwHealth(c) ==
    /\ GwAt(c, "dispatch")
    /\ Route(req[c].method, req[c].path) = "handleHealth"
    /\ ran' = [ran EXCEPT ![c] = "handleHealth"]
    /\ GwAsk(c, "health", HealthForward)
    /\ UNCHANGED << req, confVars, pc, supVars, provVars, stream, rel, reg >>

\* handleRoot: the service description, which names s.modelName, for "/";
\* 404 for every other path
GwRoot(c) ==
    /\ GwAt(c, "dispatch")
    /\ Route(req[c].method, req[c].path) = "handleRoot"
    /\ ran' = [ran EXCEPT ![c] = "handleRoot"]
    /\ IF req[c].path = "/"
         THEN GwRespond(c, [JsonHeader(Writer(req[c].path)) EXCEPT
                               !.status = 200, !.body = "root", !.ids = << modelName >>])
         ELSE GwRespond(c, NotFound(Writer(req[c].path)))
    /\ UNCHANGED << req, sent, fwd, engAns, confVars, pc, supVars, provVars, stream, rel, reg >>

\* the mux answers a request whose path is not in canonical form itself:
\* no registered handler function runs, the cors wrapper included
GwRedirect(c) ==
    /\ GwAt(c, "dispatch")
    /\ Route(req[c].method, req[c].path) = "redirect"
    /\ GwRespond(c, Redirect(NoRsp, req[c]))
    /\ UNCHANGED << req, ran, sent, fwd, engAns, confVars, pc, supVars, provVars, stream, rel, reg >>

\* the handler on connection c still waits for the engine when the
\* WriteTimeout of the http.Server, counted from the reading of the
\* request, has passed: the handler is not interrupted
GwOverdue(c) ==
    /\ GwAt(c, "blocked")
    /\ gwPc' = [gwPc EXCEPT ![c] = "overdue"]
    /\ UNCHANGED << req, rsp, ran, sent, fwd, engAns, confVars, pc, supVars, provVars, stream, rel, reg >>

\* how a request that the handler waits on ends: with the status an engine
\* that still runs answers, however late, or, once no engine runs, with
\* the connection closed
LateAnswers == IF Running = {} THEN {ConnClosed} ELSE EngineStatuses

\* the handler's write after the WriteTimeout has passed fails: the server
\* closes the connection and the client has received nothing
GwCut(c) ==
    /\ rsp' = [rsp EXCEPT ![c] = NoRsp]
    /\ gwPc' = [gwPc EXCEPT ![c] = "cut"]

\* s.proxy.ServeHTTP or http.Get returns to the handler that waits on
\* connection c: the handler relays the answer, or the 502 / 503 of a
\* failed request, which reaches the client unless the WriteTimeout has
\* passed
GwUnblock(c) ==
    /\ \/ GwAt(c, "blocked")
       \/ GwAt(c, "overdue")
    /\ \E a \in LateAnswers :
         /\ engAns' = [engAns EXCEPT ![c] = a]
         /\ IF gwPc[c] = "blocked"
              THEN GwRespond(c, Relay(sent[c], Writer(req[c].path), a))
              ELSE GwCut(c)
    /\ UNCHANGED << req, ran, sent, fwd, confVars, pc, supVars, provVars, stream, rel, reg >>

\* cmdRun is in srv.ListenAndServe(): the engine has answered 200 to
\* WaitReady, the handler task waits for a signal; the server listens on
\* the default port
InitGw ==
    /\ pc = [t \in Tasks |-> IF t = "main" THEN "serving" ELSE "h_recv"]
    /\ exitStatus = "running"
    /\ mcmd = [set |-> TRUE, proc |-> 1, pstate |-> "nil", awaited |-> FALSE]
    /\ procs = [p \in Pids |-> IF p = 1 THEN "running" ELSE "unborn"]
    /\ ready = {1}
    /\ readyAt = 0
    /\ spawned = 1
    /\ now = 0
    /\ wrDeadline = 0
    /\ wrStart = 0
    /\ wakeAt = 0
    /\ resp = "s200"
    /\ wrResult = "ok"
    /\ probes = 0
    /\ wrHung = FALSE
    /\ wrDied = FALSE
    /\ stopStreak = 0
    /\ waitState = [t \in Tasks |-> "none"]
    /\ registered = TRUE
    /\ sigPending = FALSE
    /\ sigAfterSpawn = FALSE
    /\ sigHandled = FALSE
    /\ served = TRUE
    /\ failedStep = "none"
    /\ sigAtFail = FALSE
    /\ modelPath = "cache"
    /\ backendOk = TRUE
    /\ fs = [NoFiles EXCEPT !.bin = "complete"]
    /\ fsAtCall = NoFiles
    /\ netReqs = 0
    /\ ebResult = "none"
    /\ exAt = 0
    /\ gwPc = [c \in Conns |-> "idle"]
    /\ req = [c \in Conns |-> NoReq]
    /\ rsp = [c \in Conns |-> NoRsp]
    /\ ran = [c \in Conns |-> "none"]
    /\ sent = [c \in Conns |-> "none"]
    /\ fwd = [c \in Conns |-> NoReq]
    /\ engAns = [c \in Conns |-> NoAnswer]
    /\ modelName \in ModelNames
    /\ repoID = modelName
    /\ cfg = NewConfig
    /\ srv = NewServer(cfg.port, BackendURL(cfg))
    /\ stream = NoStream
    /\ rel = NoRel
    /\ reg = [NoReg EXCEPT !.entries = << RunEntry(repoID, CachedFilename) >>]

NextGw ==
    \/ \E c \in Conns : GwRequest(c)
    \/ \E c \in Conns : GwPreflight(c)
    \/ \E c \in Conns : GwProxyPost(c)
    \/ \E c \in Conns : GwModels(c)
    \/ \E c \in Conns : GwHealth(c)
    \/ \E c \in Conns : GwRoot(c)
    \/ \E c \in Conns : GwRedirect(c)
    \/ \E c \in Conns : GwOverdue(c)
    \/ \E c \in Conns : GwUnblock(c)
    \/ \E p \in Pids : EngineExits(p)

SpecGw == InitGw /\ [][NextGw]_vars

\* ------------------------------------------------- streaming ----------
\* SpecStream: the engine has answered a forwarded POST with a streamed
\* response of stream.n chunks; the proxy's copy loop reads what the engine
\* has written and writes it to the client, flushing at the latest
\* FlushInterval after a write. Time advances in steps of FlushInterval.

\* an engine is staggered when it lets this much time pass between two
\* chunks, and between the last chunk and the end of the response
StaggerGap == 2 * FlushInterval

\* the clock of the stream stops here
MaxStreamTime == StaggerGap * (MaxChunks + 1)

\* fault variant: the proxy writes to the client when the response has ended
CanFlush_AtEnd(s) == s.buf # << >> /\ s.eof

\* the proxy holds output that it has not flushed to the client
CanFlush(s) == s.buf # << >>

\* the engine writes its next chunk
StEmit ==
    /\ stream.emitted < stream.n
    /\ ~stream.ended
    /\ stream' = [stream EXCEPT
                    !.emitted = @ + 1,
                    !.pipe = Append(@, stream.emitted + 1),
                    !.lastEmit = stream.now,
                    !.staggered = @ /\ (stream.emitted = 0
                                        \/ stream.now >= stream.lastEmit + StaggerGap)]
    /\ UNCHANGED << pc, supVars, provVars, gwVars, rel, reg >>

\* the engine ends the response after its last chunk
StEnd ==
    /\ stream.n > 0
    /\ stream.emitted = stream.n
    /\ ~stream.ended
    /\ stream' = [stream EXCEPT
                    !.ended = TRUE,
                    !.staggered = @ /\ stream.now >= stream.lastEmit + StaggerGap]
    /\ UNCHANGED << pc, supVars, provVars, gwVars, rel, reg >>

\* the copy loop reads everything the engine has written so far and writes
\* it to the client's buffered writer
StRead ==
    /\ stream.pipe # << >>
    /\ stream' = [stream EXCEPT
                    !.pipe = << >>,
                    !.buf = @ \o stream.pipe,
                    !.bufAt = IF stream.buf = << >> THEN stream.now ELSE @]
    /\ UNCHANGED << pc, supVars, provVars, gwVars, rel, reg >>

\* the flush: the client receives what the proxy holds as one delivery
StFlush ==
    /\ CanFlush(stream)
    /\ stream' = [stream EXCEPT
                    !.buf = << >>,
                    !.deliv = Append(@, [chunks |-> stream.buf, open |-> ~stream.ended])]
    /\ UNCHANGED << pc, supVars, provVars, gwVars, rel, reg >>

\* the copy loop reads the end of the response
StEOF ==
    /\ stream.ended
    /\ stream.pipe = << >>
    /\ ~stream.eof
    /\ stream' = [stream EXCEPT !.eof = TRUE]
    /\ UNCHANGED << pc, supVars, provVars, gwVars, rel, reg >>

\* FlushInterval passes: the copy loop has read what was written, and a
\* flush is not later than FlushInterval after the write it flushes
StTick ==
    /\ stream.n > 0
    /\ stream.now < MaxStreamTime
    /\ stream.pipe = << >>
    /\ ~CanFlush(stream) \/ stream.now < stream.bufAt + FlushInterval
    /\ stream' = [stream EXCEPT !.now = @ + FlushInterval]
    /\ UNCHANGED << pc, supVars, provVars, gwVars, rel, reg >>

InitStream ==
    /\ InitBase
    /\ repoID = 0
    /\ pc = [t \in Tasks |-> IF t = "main" THEN "idle" ELSE "h_none"]
    /\ fs = NoFiles
    /\ cfg = NewConfig
    /\ rel = NoRel
    /\ reg = NoReg
    /\ \E k \in 1..MaxChunks : stream = [NoStream EXCEPT !.n = k]

NextStream == StEmit \/ StEnd \/ StRead \/ StFlush \/ StEOF \/ StTick

SpecStream == InitStream /\ [][NextStream]_vars

\* ------------------------------------------------- findRelease ---------
\* SpecRel: one call of findRelease on a platform, with what the releases
\* API answers. A name is the sequence of its parts between hyphens and its
\* suffix: "llama-bin-win-cpu-x64.zip" is << "llama", "bin", "win", "cpu",
\* "x64" >> with suffix "zip". A substring to look for is a sequence of
\* parts, followed by a hyphen or not.

AssetName(toks, ext) == [toks |-> toks, ext |-> ext]

\* the names of the assets a release may list
AssetNames ==
    { AssetName(<< "llama", "bin", "win", "cpu", "x64" >>, "zip"),
      AssetName(<< "llama", "bin", "win", "avx2", "x64" >>, "zip"),
      AssetName(<< "llama", "bin", "win", "cuda", "x64" >>, "zip"),
      AssetName(<< "cudart", "llama", "bin", "win", "x64" >>, "zip"),
      AssetName(<< "llama", "bin", "ubuntu", "x64" >>, "tar.gz"),
      AssetName(<< "llama", "bin", "ubuntu", "vulkan", "x64" >>, "zip"),
      AssetName(<< "llama", "bin", "ubuntu", "arm64" >>, "zip"),
      AssetName(<< "llama", "bin", "macos", "arm64" >>, "zip"),
      AssetName(<< "Llama", "Bin", "Win", "CPU", "x64" >>, "ZIP"),
      AssetName(<< "llama", "bin", "win", "cpu", "x64" >>, "sha256"),
      AssetName(<< "llama", "bin", "freebsd", "amd64" >>, "zip") }

\* runtime.GOOS and runtime.GOARCH
Platforms ==
    { [goos |-> "windows", goarch |-> "amd64"], [goos |-> "windows", goarch |-> "arm64"],
      [goos |-> "darwin", goarch |-> "arm64"], [goos |-> "darwin", goarch |-> "amd64"],
      [goos |-> "linux", goarch |-> "amd64"], [goos |-> "linux", goarch |-> "arm64"],
      [goos |-> "freebsd", goarch |-> "amd64"] }

\* what the request to the releases API comes to: a decoded release, an
\* error of http.Get, a status other than 200, a body that does not decode
Fetches == {"ok", "neterr", "status", "decode"}

\* the least element of a set of numbers
MinOf(S) == CHOOSE x \in S : \A y \in S : x <= y

\* strings.ToLower on a part of a name
LowerPart(t) ==
    CASE t = "Llama" -> "llama"
      [] t = "Bin" -> "bin"
      [] t = "Win" -> "win"
      [] t = "CPU" -> "cpu"
      [] t = "ZIP" -> "zip"
      [] OTHER -> t

\* strings.ToLower(a.Name)
ToLower(a) == [toks |-> [i \in 1..Len(a.toks) |-> LowerPart(a.toks[i])], ext |-> LowerPart(a.ext)]

\* a substring to look for
Key(toks, dash) == [toks |-> toks, dash |-> dash]

\* strings.Contains(name, key)
Contains(name, key) ==
    \E i \in 1..(Len(name.toks) - Len(key.toks) + 1) :
        /\ SubSeq(name.toks, i, i + Len(key.toks) - 1) = key.toks
        /\ key.dash => i + Len(key.toks) - 1 < Len(name.toks)

\* the keywords of which a part of a name is made
WordsIn(t) == IF t = "cudart" THEN {"cuda", "cudart"} ELSE {t}

\* strings.Contains(name, word) for a word without hyphen
ContainsWord(name, word) == \E i \in 1..Len(name.toks) : word \in WordsIn(name.toks[i])

\* targetAssetHints
targetAssetHints(goos, goarch) ==
    CASE goos = "windows" /\ goarch = "amd64" -> << << "win", "cpu", "x64" >>, << "win", "avx2", "x64" >> >>
      [] goos = "windows" /\ goarch = "arm64" -> << << "win", "cpu", "arm64" >>, << "win", "arm64" >> >>
      [] goos = "darwin" /\ goarch = "arm64" -> << << "macos", "arm64" >> >>
      [] goos = "darwin" /\ goarch = "amd64" -> << << "macos", "x64" >> >>
      [] goos = "linux" /\ goarch = "amd64" -> << << "ubuntu", "x64" >> >>
      [] OTHER -> << << goos, goarch >> >>

\* osAssetKey
osAssetKey(goos) ==
    CASE goos = "windows" -> Key(<< "win" >>, TRUE)
      [] goos = "darwin" -> Key(<< "macos" >>, TRUE)
      [] goos = "linux" -> Key(<< "ubuntu" >>, TRUE)
      [] OTHER -> Key(<< goos >>, FALSE)

\* isArchive
isArchive(name) == name.ext \in {"zip", "tar.gz"}

\* the keywords the fallback excludes
Accelerators == {"cuda", "vulkan", "sycl", "hip", "opencl", "aclgraph", "cudart"}

\* the positions of the archives whose lower-cased name contains the hint
HintHits(assets, hint) ==
    { i \in 1..Len(assets) :
        Contains(ToLower(assets[i]), Key(hint, FALSE)) /\ isArchive(ToLower(assets[i])) }

\* fault variant: the first asset that matches any hint
ByHints_AssetOrder(assets, hints) ==
    LET hits == UNION { HintHits(assets, hints[j]) : j \in 1..Len(hints) }
    IN  IF hits = {} THEN 0 ELSE MinOf(hits)

\* findRelease, first phase: for each hint in order, the first asset that
\* matches it; 0 when no hint has a match
ByHints(assets, hints) ==
    LET matched == { j \in 1..Len(hints) : HintHits(assets, hints[j]) # {} }
    IN  IF matched = {} THEN 0 ELSE MinOf(HintHits(assets, hints[MinOf(matched)]))

\* findRelease, second phase: the first archive that names the OS and no
\* accelerator; 0 when there is none
ByOsKey(assets, osKey) ==
    LET hits == { i \in 1..Len(assets) :
                    /\ Contains(ToLower(assets[i]), osKey)
                    /\ isArchive(ToLower(assets[i]))
                    /\ \A w \in Accelerators : ~ContainsWord(ToLower(assets[i]), w) }
    IN  IF hits = {} THEN 0 ELSE MinOf(hits)

\* what findRelease returns: an error, or the asset at a position
RelResult(err, at) == [done |-> TRUE, err |-> err, at |-> at]

\* findRelease
findRelease(goos, goarch, fetch, assets) ==
    IF fetch # "ok" THEN RelResult(fetch, 0)
    ELSE LET byHint == ByHints(assets, targetAssetHints(goos, goarch))
             byOs == ByOsKey(assets, osAssetKey(goos))
         IN  IF byHint # 0 THEN RelResult("", byHint)
             ELSE IF byOs # 0 THEN RelResult("", byOs)
             ELSE RelResult("nomatch", 0)

\* the lists of assets of a release
RECURSIVE AssetLists(_)
AssetLists(n) ==
    IF n = 0 THEN { << >> }
    ELSE AssetLists(n - 1)
           \cup { Append(l, a) : l \in { m \in AssetLists(n - 1) : Len(m) = n - 1 }, a \in AssetNames }

\* m.findRelease()
FindReleaseCall ==
    /\ rel.goos # ""
    /\ ~rel.out.done
    /\ rel' = [rel EXCEPT !.out = findRelease(rel.goos, rel.goarch, rel.fetch, rel.assets)]
    /\ UNCHANGED << pc, supVars, provVars, gwVars, stream, reg >>

InitRel ==
    /\ InitBase
    /\ repoID = 0
    /\ pc = [t \in Tasks |-> IF t = "main" THEN "idle" ELSE "h_none"]
    /\ fs = NoFiles
    /\ cfg = NewConfig
    /\ stream = NoStream
    /\ reg = NoReg
    /\ \E p \in Platforms : \E f \in Fetches :
         \E l \in IF f = "ok" THEN AssetLists(MaxAssets) ELSE { << >> } :
           rel = [NoRel EXCEPT !.goos = p.goos, !.goarch = p.goarch, !.fetch = f, !.assets = l]

NextRel == FindReleaseCall

SpecRel == InitRel /\ [][NextRel]_vars

\* ------------------------------------------------- the registry -------
\* SpecReg: a Registry loaded without two entries of one repo id, and any
\* sequence of Add and Remove calls on it. An entry is its ID, its RepoID
\* and its file; ID and RepoID are strings of one kind, since Remove
\* compares its argument with both.

Keys == 1..MaxKeys

Entries == [id : Keys, repoID : Keys, filename : Filenames]

\* the number of entries is kept within this
MaxEntries == MaxKeys + 1

\* no two entries have the same repo id
NoDuplicates(l) ==
    \A i \in 1..Len(l) : \A j \in 1..Len(l) : i # j => l[i].repoID # l[j].repoID

\* Registry.Find: the position of the first entry with the repo id, 0 for nil
Find(entries, id) ==
    LET hits == { i \in 1..Len(entries) : entries[i].repoID = id }
    IN  IF hits = {} THEN 0 ELSE MinOf(hits)

\* fault variant: the entry is appended whatever the registry holds
Add_Append(entries, e) == Append(entries, e)

\* Registry.Add: the entries after the call
Add(entries, e) ==
    LET hits == { i \in 1..Len(entries) : entries[i].repoID = e.repoID }
    IN  IF hits # {} THEN [entries EXCEPT ![MinOf(hits)] = e] ELSE Append(entries, e)

\* Registry.Remove: the position of the first entry whose ID or RepoID is
\* the argument, 0 when there is none
RemoveAt(entries, id) ==
    LET hits == { i \in 1..Len(entries) : entries[i].id = id \/ entries[i].repoID = id }
    IN  IF hits = {} THEN 0 ELSE MinOf(hits)

\* Registry.Remove: the entries after the call
Remove(entries, id) ==
    LET i == RemoveAt(entries, id)
    IN  IF i = 0 THEN entries
        ELSE SubSeq(entries, 1, i - 1) \o SubSeq(entries, i + 1, Len(entries))

\* r.Add(e): the entries are changed, then r.save() succeeds or fails
RegAdd ==
    /\ Len(reg.entries) < MaxEntries
    /\ \E e \in Entries : \E saved \in BOOLEAN :
         reg' = [entries |-> Add(reg.entries, e), op |-> "Add", e |-> e, id |-> 0,
                 err |-> IF saved THEN "" ELSE "save",
                 before |-> reg.entries, unlinked |-> 0]
    /\ UNCHANGED << pc, supVars, provVars, gwVars, stream, rel >>

\* r.Remove(id): the file of the entry is deleted, the entries are changed,
\* then r.save() succeeds or fails; with no entry, the not-found error
RegRemove ==
    /\ \E id \in Keys : \E saved \in BOOLEAN :
         LET i == RemoveAt(reg.entries, id)
         IN  reg' = [entries |-> Remove(reg.entries, id), op |-> "Remove", e |-> NoEntry,
                     id |-> id,
                     err |-> IF i = 0 THEN "notfound" ELSE IF saved THEN "" ELSE "save",
                     before |-> reg.entries,
                     unlinked |-> IF i = 0 THEN 0 ELSE reg.entries[i].filename]
    /\ UNCHANGED << pc, supVars, provVars, gwVars, stream, rel >>

\* the lists of at most n entries without two of one repo id
RECURSIVE EntryLists(_)
EntryLists(n) ==
    IF n = 0 THEN { << >> }
    ELSE EntryLists(n - 1)
           \cup { Append(l, e) : l \in { m \in EntryLists(n - 1) : Len(m) = n - 1 },
                                 e \in Entries }

\* NewRegistry: the entries loaded from models.json
InitReg ==
    /\ InitBase
    /\ repoID = 0
    /\ pc = [t \in Tasks |-> IF t = "main" THEN "idle" ELSE "h_none"]
    /\ fs = NoFiles
    /\ cfg = NewConfig
    /\ stream = NoStream
    /\ rel = NoRel
    /\ \E l \in { m \in EntryLists(MaxKeys) : NoDuplicates(m) } :
         reg = [NoReg EXCEPT !.entries = l]

NextReg == RegAdd \/ RegRemove

SpecReg == InitReg /\ [][NextReg]_vars

\* ------------------------------------------------- cmdRun --------------
\* the run command is given a model; the registry loaded from models.json
\* is empty or holds an entry of that model; the engine binary is installed
\* or not
Init ==
    /\ InitBase
    /\ stream = NoStream
    /\ rel = NoRel
    /\ repoID \in RunRepos
    /\ \E l \in { << >>, << RunEntry(repoID, CachedFilename) >> } :
         reg = [NoReg EXCEPT !.entries = l]
    /\ fs \in { [NoFiles EXCEPT !.bin = b] : b \in {"absent", "complete"} }
    /\ cfg \in { RunConfig(p) : p \in PortFlags }
    /\ pc = [t \in Tasks |-> IF t = "main" THEN "r_dirs" ELSE "h_none"]

\* SIGINT or SIGTERM has been delivered to the program
SignalDelivered == sigAfterSpawn \/ sigPending \/ sigHandled

\* fault variant: a failed step prints its diagnostic and execution goes on
RunStep_NoExit(from, to, ok) ==
    /\ exitStatus = "running"
    /\ pc["main"] = from
    /\ pc' = [pc EXCEPT !["main"] = to]
    /\ failedStep' = IF ok THEN failedStep ELSE from
    /\ UNCHANGED << exitStatus, sigAtFail >>

\* a startup step that either succeeds or prints a diagnostic and os.Exit(1)
RunStep(from, to, ok) ==
    /\ exitStatus = "running"
    /\ pc["main"] = from
    /\ IF ok THEN pc' = [pc EXCEPT !["main"] = to] /\ UNCHANGED << exitStatus, failedStep >>
             ELSE exitStatus' = "exit1" /\ failedStep' = from /\ UNCHANGED pc
    /\ UNCHANGED sigAtFail

\* cfg.EnsureDirs()
RunDirs ==
    /\ \E ok \in BOOLEAN : RunStep("r_dirs", "r_model", ok)
    /\ UNCHANGED << mcmd, procs, ready, readyAt, spawned, now, wrVars, stopStreak, sigVars, served,
                    modelPath, backendOk, repoID, waitState, extVars >>

\* the local cache: registry.Find(repoID) returns an entry and os.Stat finds
\* its file
RunModel ==
    /\ \E hit \in IF Find(reg.entries, repoID) # 0 THEN BOOLEAN ELSE {FALSE} :
         /\ RunStep("r_model", IF hit THEN "r_backend" ELSE "r_info", TRUE)
         /\ modelPath' = IF hit THEN "cache" ELSE modelPath
    /\ UNCHANGED << mcmd, procs, ready, readyAt, spawned, now, wrVars, stopStreak, sigVars, served,
                    backendOk, repoID, waitState, extVars >>

\* hf.GetModelInfo, hf.FindGGUFFiles, hf.SelectBestGGUF: each can fail
RunInfo ==
    /\ \E ok \in BOOLEAN : RunStep("r_info", "r_download", ok)
    /\ UNCHANGED << mcmd, procs, ready, readyAt, spawned, now, wrVars, stopStreak, sigVars, served,
                    modelPath, backendOk, repoID, waitState, extVars >>

\* downloader.DownloadFile of the selected file; then registry.Add of its
\* entry, whose error (a failed save) is not looked at
RunDownload ==
    /\ \E ok \in BOOLEAN :
         /\ RunStep("r_download", "r_backend", ok)
         /\ modelPath' = IF ok THEN "download" ELSE modelPath
         /\ IF ok
              THEN \E f \in RunFilenames :
                     reg' = [reg EXCEPT !.entries = Add(reg.entries, RunEntry(repoID, f))]
              ELSE UNCHANGED reg
    /\ UNCHANGED << mcmd, procs, ready, readyAt, spawned, now, wrVars, stopStreak, sigVars, served,
                    backendOk, repoID, waitState, provVars, gwVars, stream, rel >>

\* mgr.EnsureBackend() is called
RunBackend ==
    /\ exitStatus = "running"
    /\ pc["main"] = "r_backend"
    /\ EBCall
    /\ UNCHANGED << fs, supVars, gwVars, stream, rel, reg >>

\* if err := mgr.EnsureBackend(); err != nil { ...; os.Exit(1) }.  The call
\* is over: what was recorded of it is cleared, the files stay
RunBackendReturn ==
    /\ exitStatus = "running"
    /\ pc["main"] = "eb_done"
    /\ IF ebResult = "ok"
         THEN /\ pc' = [pc EXCEPT !["main"] = "r_start"]
              /\ backendOk' = TRUE
              /\ UNCHANGED << exitStatus, failedStep >>
         ELSE /\ exitStatus' = "exit1"
              /\ failedStep' = "r_backend"
              /\ UNCHANGED << pc, backendOk >>
    /\ fsAtCall' = NoFiles
    /\ netReqs' = 0
    /\ ebResult' = "none"
    /\ exAt' = 0
    /\ UNCHANGED << mcmd, procs, ready, readyAt, spawned, now, wrVars, stopStreak, sigVars, served,
                    sigAtFail, modelPath, repoID, waitState, fs, gwVars, stream, rel, reg >>

\* mgr.Start(modelPath)
RunStart ==
    /\ \E ok \in BOOLEAN :
         /\ ok => Executable(fs.bin)
         /\ RunStep("r_start", "r_notify", ok)
         /\ StartCmd(ok)
    /\ UNCHANGED << ready, readyAt, now, wrVars,
                    sigVars, served, modelPath, backendOk, repoID, waitState, extVars >>

\* sigCh := make(chan os.Signal, 1); signal.Notify(sigCh, SIGINT, SIGTERM)
RunNotify ==
    /\ exitStatus = "running"
    /\ pc["main"] = "r_notify"
    /\ pc' = [pc EXCEPT !["main"] = "r_go"]
    /\ registered' = TRUE
    /\ UNCHANGED << exitStatus, mcmd, procs, ready, readyAt, spawned, now, wrVars, stopStreak, sigPending,
                    sigAfterSpawn, sigHandled, served, runVars, waitState, extVars >>

\* go func() { <-sigCh; ... }()
RunGo ==
    /\ exitStatus = "running"
    /\ pc["main"] = "r_go"
    /\ pc' = [pc EXCEPT !["main"] = "r_wait", !["handler"] = "h_recv"]
    /\ UNCHANGED << exitStatus, mcmd, procs, ready, readyAt, spawned, now, wrVars, stopStreak, sigVars, served, runVars, waitState, extVars >>

\* mgr.WaitReady(5 * time.Minute)
RunCallWait ==
    /\ exitStatus = "running"
    /\ pc["main"] = "r_wait"
    /\ WaitReadyCall("main", RunTimeout)
    /\ UNCHANGED << exitStatus, mcmd, procs, ready, readyAt, spawned, now,
                    stopStreak, sigVars, served, runVars, waitState, extVars >>

\* fault variant: the error of WaitReady is not looked at
WaitFailed_Ignored(res) == FALSE

\* if err := mgr.WaitReady(...); err != nil
WaitFailed(res) == res # "ok"

\* after WaitReady: on an error, mgr.Stop() and os.Exit(1); else go on.
\* The locals of WaitReady are gone, and the clock, which nothing reads
\* from here on, is set back to 0; what the call returned and what its last
\* probe got are kept
RunAfterWait ==
    /\ exitStatus = "running"
    /\ pc["main"] = "wr_done"
    /\ pc' = [pc EXCEPT !["main"] = IF WaitFailed(wrResult) THEN "stop_check" ELSE "r_serve"]
    /\ failedStep' = IF WaitFailed(wrResult) THEN "r_wait" ELSE failedStep
    /\ sigAtFail' = (WaitFailed(wrResult) /\ SignalDelivered)
    /\ now' = 0
    /\ readyAt' = IF readyAt = -1 THEN -1 ELSE 0
    /\ wrDeadline' = 0
    /\ wrStart' = 0
    /\ wakeAt' = 0
    /\ probes' = 0
    /\ wrHung' = FALSE
    /\ wrDied' = FALSE
    /\ UNCHANGED << exitStatus, mcmd, procs, ready, spawned, resp, wrResult, stopStreak, sigVars, served,
                    modelPath, backendOk, repoID, waitState, extVars >>

\* api.NewServer(cfg.Port, mgr.BackendURL(), repoID); srv.ListenAndServe()
RunServe ==
    /\ exitStatus = "running"
    /\ pc["main"] = "r_serve"
    /\ pc' = [pc EXCEPT !["main"] = "serving"]
    /\ served' = TRUE
    /\ srv' = NewServer(cfg.port, BackendURL(cfg))
    /\ modelName' = repoID
    /\ UNCHANGED << exitStatus, mcmd, procs, ready, readyAt, spawned, now, wrVars, stopStreak, sigVars, runVars, waitState,
                    provVars, connVars, cfg, stream, rel, reg >>

\* ListenAndServe returns an error: mgr.Stop(), os.Exit(1)
RunServeFails ==
    /\ exitStatus = "running"
    /\ pc["main"] = "serving"
    /\ pc' = [pc EXCEPT !["main"] = "stop_check"]
    /\ UNCHANGED << exitStatus, mcmd, procs, ready, readyAt, spawned, now, wrVars, stopStreak, sigVars, served, runVars, waitState, extVars >>

\* os.Exit(1) after the main task's mgr.Stop()
RunMainExit ==
    /\ exitStatus = "running"
    /\ pc["main"] = "stop_done"
    /\ exitStatus' = "exit1"
    /\ UNCHANGED << pc, mcmd, procs, ready, readyAt, spawned, now, wrVars, stopStreak, sigVars, served, runVars, waitState, extVars >>

\* <-sigCh in the handler task, then mgr.Stop()
HandlerRecv ==
    /\ exitStatus = "running"
    /\ pc["handler"] = "h_recv"
    /\ sigPending
    /\ sigPending' = FALSE
    /\ sigHandled' = TRUE
    /\ pc' = [pc EXCEPT !["handler"] = "stop_check"]
    /\ UNCHANGED << exitStatus, mcmd, procs, ready, readyAt, spawned, now, wrVars, stopStreak, registered,
                    sigAfterSpawn, served, runVars, waitState, extVars >>

\* os.Exit(0) after the handler's mgr.Stop()
HandlerExit ==
    /\ exitStatus = "running"
    /\ pc["handler"] = "stop_done"
    /\ exitStatus' = "exit0"
    /\ UNCHANGED << pc, mcmd, procs, ready, readyAt, spawned, now, wrVars, stopStreak, sigVars, served, runVars, waitState, extVars >>

\* SIGINT or SIGTERM is delivered to the program: before signal.Notify the
\* default action terminates it at once; afterwards the signal is queued
\* on sigCh (a signal arriving while sigCh is full is dropped)
Signal ==
    /\ exitStatus = "running"
    /\ registered => ~sigPending
    /\ IF registered
         THEN sigPending' = TRUE /\ UNCHANGED exitStatus
         ELSE exitStatus' = "killed" /\ UNCHANGED sigPending
    /\ sigAfterSpawn' = (sigAfterSpawn \/ mcmd.proc # 0)
    /\ UNCHANGED << pc, mcmd, procs, ready, readyAt, spawned, now, wrVars, stopStreak, registered, sigHandled, served, runVars, waitState, extVars >>

Next ==
    \/ RunDirs
    \/ RunModel
    \/ RunInfo
    \/ RunDownload
    \/ RunBackend
    \/ EnsureBackendSteps
    \/ RunBackendReturn
    \/ RunStart
    \/ RunNotify
    \/ RunGo
    \/ RunCallWait
    \/ WaitReadySteps("main")
    \/ RunAfterWait
    \/ RunServe
    \/ RunServeFails
    \/ StopSteps("main")
    \/ RunMainExit
    \/ HandlerRecv
    \/ StopSteps("handler")
    \/ HandlerExit
    \/ Signal
    \/ ClockTick
    \/ EngineSteps

Spec == Init /\ [][Next]_vars

\* ======================================================= properties ====
WaitReadyPcs == {"wr_check", "wr_probe", "wr_blocked", "wr_eval", "wr_sleep"}
StopPcs == {"stop_check", "stop_kill", "stop_wait", "stop_reap", "stop_store", "stop_await"}

\* C1: in the run command ListenAndServe is invoked only after WaitReady
\* has returned success, that is after a health probe was answered with 200
C1_ServeOnlyAfterReady == served => (wrResult = "ok" /\ resp = "s200")

C1_Witness == served /\ pc["main"] = "serving" /\ exitStatus = "running"

\* C2: whenever a signal is delivered after Start has spawned the engine,
\* a Stop has run to completion (engine killed and reaped) when the program
\* has exited
C2_SignalAlwaysStops ==
    (exitStatus # "running" /\ sigAfterSpawn)
        => (stopStreak >= 1 /\ procs[mcmd.proc] = "reaped")

\* C3: a shutdown that the signal handler has begun while the main task
\* has not got past WaitReady always ends with exit status 0
C3_SignalExitZero ==
    (sigHandled /\ exitStatus # "running" /\ ~served) => exitStatus = "exit0"

\* C4: when the only engine spawned had terminated on its own, before ever
\* answering /health with 200, by the time WaitReady made its last probe,
\* WaitReady returns the process-exited error
C4_DeadEngineReported ==
    (pc["main"] = "wr_done" /\ wrDied /\ spawned = 1) => wrResult = "exited"

\* C5: WaitReady returns success only if the last probe of the call was
\* answered with HTTP 200
C5_SuccessOnly200 == wrResult = "ok" => resp = "s200"

C5_Witness == pc["main"] = "wr_done" /\ wrResult = "ok" /\ probes > 1

\* C6: WaitReady ends with one of its three outcomes, and it never stays
\* in the call a polling interval or more past its deadline
C6_WaitReadyBounded ==
    /\ pc["main"] = "wr_done" => wrResult \in {"ok", "timeout", "exited"}
    /\ pc["main"] \in WaitReadyPcs => now < wrDeadline + PollInterval

\* the probe instants of the current call that lie before its deadline
ProbeSlots == { wrStart + k * PollInterval : k \in 0..(2 * MaxTimeoutTicks) }
                  \cap { t \in 0..(wrDeadline - 1) : TRUE }

\* C7: against one engine that answers every probe, a successful WaitReady
\* returns no earlier than the engine became healthy and at most one
\* polling interval later, having probed exactly once per interval; and it
\* does not time out when a probe instant after the engine became healthy
\* lies before the deadline
C7_SuccessWithinOneInterval ==
    (pc["main"] = "wr_done" /\ ~wrHung /\ spawned = 1 /\ mcmd.proc = 1)
        => /\ wrResult = "ok" =>
                /\ readyAt >= 0
                /\ readyAt <= now
                /\ now <= Max(readyAt, wrStart) + PollInterval
                /\ probes * PollInterval = (now - wrStart) + PollInterval
           /\ (wrResult = "timeout" /\ procs[1] = "running" /\ readyAt >= 0)
                => ~ \E s \in ProbeSlots : readyAt < s

C7_Witness ==
    /\ pc["main"] = "wr_done" /\ ~wrHung /\ spawned = 1 /\ mcmd.proc = 1
    /\ wrResult = "ok"
    /\ readyAt > wrStart
    /\ probes >= 2

\* C8: Stop never panics and never blocks, and a Stop called when a Stop
\* has already completed since the last Start changes nothing
C8_StopInv ==
    /\ pc["main"] \notin {"stop_panic", "stop_hung"}
    /\ pc["main"] = "stop_reap" => WaitCanReturn(mcmd, procs)

C8_StopIdempotentTotal ==
    /\ []C8_StopInv
    /\ [][ (stopStreak >= 1 /\ pc["main"] \in StopPcs /\ pc'["main"] # pc["main"])
              => UNCHANGED << mcmd, procs >> ]_vars

C8_Witness == pc["main"] = "stop_done" /\ stopStreak = 2 /\ mcmd.proc # 0

\* C9: when Stop returns after a successful Start, no engine process
\* spawned by the supervisor is alive or unreaped
C9_StopLeavesNoEngine ==
    (pc["main"] = "stop_done" /\ mcmd.proc # 0)
        => \A p \in Pids : procs[p] \in {"unborn", "reaped"}

\* C10: at most one engine process is alive, and the supervisor holds the
\* handle of every live one
C10_AtMostOneEngine ==
    /\ Cardinality(Running) <= 1
    /\ \A p \in Running : mcmd.proc = p

\* the handler task is inside Cmd.Wait, about to store m.cmd.ProcessState,
\* while the main task is at the process check of WaitReady, about to load
\* it: two accesses to the same field, one of them a write, both enabled,
\* with no lock, channel or atomic between them
ConflictingAccess ==
    /\ pc["handler"] = "stop_store"
    /\ pc["main"] = "wr_eval"
    /\ ~ProbeSucceeded(resp)

\* C11: while the handler task runs Stop and the main task is inside
\* WaitReady, no task panics, the handler's Stop never blocks, and the two
\* tasks never access m.cmd.ProcessState in conflict
C11_HandlerStopSafe ==
    /\ \A t \in Tasks : pc[t] \notin {"stop_panic", "wr_panic"}
    /\ pc["handler"] # "stop_hung"
    /\ pc["handler"] = "stop_reap" => WaitCanReturn(mcmd, procs)
    /\ ~ConflictingAccess

\* the startup steps of cmdRun in program order; every later position of
\* the main task ranks after them
StepOrder ==
    << "r_dirs", "r_model", "r_info", "r_download", "r_backend", "r_start", "r_notify",
       "r_go", "r_wait" >>

StepRank(p) ==
    IF \E i \in DOMAIN StepOrder : StepOrder[i] = p
      THEN CHOOSE i \in DOMAIN StepOrder : StepOrder[i] = p
    ELSE IF p \in ProvPcs \cup {"eb_done"}
      THEN CHOOSE i \in DOMAIN StepOrder : StepOrder[i] = "r_backend"
    ELSE Len(StepOrder) + 1

\* C12: once a startup step (directories, model, EnsureBackend, Start,
\* WaitReady) has failed with no termination signal delivered before the
\* failure, ListenAndServe has not been invoked and the program's exit
\* status, once it has one, is 1
C12_FatalFailureExitsNonZero ==
    (failedStep # "none" /\ ~sigAtFail)
        => (~served /\ exitStatus \in {"running", "exit1"})

\* no startup step is run again: the main task never goes back to an
\* earlier step
NoRetry == [][StepRank(pc'["main"]) >= StepRank(pc["main"])]_vars

\* C13: Start is reached, and an engine is spawned, only when the model path
\* has been resolved (cache hit or completed download), EnsureBackend has
\* returned nil, and no earlier step has failed
C13_StartAfterAcquisition ==
    (pc["main"] = "r_start" \/ mcmd.set \/ spawned > 0)
        => /\ modelPath \in {"cache", "download"}
           /\ backendOk
           /\ failedStep \in {"none", "r_start", "r_wait"}

C13_Witness == spawned = 1 /\ procs[1] = "running" /\ modelPath = "download" /\ backendOk

\* C14: when the binary was missing as an EnsureBackend call began, after
\* the call has returned or has been interrupted the binary path holds
\* the complete executable or nothing
C14_NoPartialBinary ==
    (pc["main"] \in {"eb_done", "eb_killed"} /\ fsAtCall.bin = "absent")
        => fs.bin \in {"absent", "complete"}

\* C15: an EnsureBackend call that began with a file at the binary path has
\* returned nil, has made no network request and has left every file as
\* it was
C15_EnsureBackendIdempotent ==
    (pc["main"] = "eb_done" /\ fsAtCall.bin # "absent")
        => /\ ebResult = "ok"
           /\ netReqs = 0
           /\ fs = fsAtCall

\* a call that found the complete binary installed and returned at once
C15_Witness ==
    /\ pc["main"] = "eb_done"
    /\ fsAtCall.bin = "complete"
    /\ ebResult = "ok"
    /\ fs = [NoFiles EXCEPT !.bin = "complete"]

\* the gateway has answered, on connection c, the request of method m for
\* path p
Answered(c, m, p) == gwPc[c] = "done" /\ req[c].method = m /\ req[c].path = p

\* C16: the answer to GET /v1/models is a list of exactly one entry, whose
\* id is the model name the server was constructed with, and nothing was
\* sent to the engine for it
C16_ModelsOneEntry ==
    \A c \in Conns :
        Answered(c, "GET", "/v1/models")
            => /\ rsp[c].status = 200
               /\ rsp[c].body = "models"
               /\ rsp[c].ids = << modelName >>
               /\ sent[c] = "none"

\* the list is served with the engine gone
C16_Witness ==
    \E c \in Conns :
        Answered(c, "GET", "/v1/models") /\ Running = {} /\ rsp[c].ids = << modelName >>

\* the statement of C17 as given: every method other than POST on a
\* completion/embedding route is answered 405 with the structured
\* invalid_request_error body, and is not forwarded
C17_NonPostRejected ==
    \A c \in Conns :
        (gwPc[c] = "done" /\ req[c].path \in ProxyPaths /\ req[c].method # "POST")
            => /\ rsp[c].status = 405
               /\ rsp[c].body = "error"
               /\ rsp[c].errType = "invalid_request_error"
               /\ sent[c] = "none"

\* C17: every request to a completion/embedding route whose method is
\* neither POST nor OPTIONS is answered 405 and is not forwarded to the
\* engine; its body is the structured invalid_request_error error, except
\* for HEAD, whose answer has no body; OPTIONS is answered 204 by the cors
\* wrapper and is not forwarded either
C17_NonPostNonOptionsRejected ==
    \A c \in Conns :
        (gwPc[c] = "done" /\ req[c].path \in ProxyPaths /\ req[c].method # "POST")
            => /\ sent[c] = "none"
               /\ IF req[c].method = "OPTIONS"
                    THEN rsp[c].status = 204 /\ rsp[c].body = "empty"
                    ELSE /\ rsp[c].status = 405
                         /\ rsp[c].ctype = "application/json"
                         /\ IF req[c].method = "HEAD" THEN rsp[c].body = "empty"
                            ELSE /\ rsp[c].body = "error"
                                 /\ rsp[c].errType = "invalid_request_error"

C17_Witness ==
    \E c \in Conns :
        /\ Answered(c, "PUT", "/v1/embeddings")
        /\ rsp[c].status = 405
        /\ ran[c] = "proxyPost"

\* C18: GET /v1/chat/completions is answered 405 with error.type
\* "invalid_request_error", and the request does not reach the engine
C18_GetChatRejected ==
    \A c \in Conns :
        Answered(c, "GET", "/v1/chat/completions")
            => /\ rsp[c].status = 405
               /\ rsp[c].body = "error"
               /\ rsp[c].errType = "invalid_request_error"
               /\ sent[c] = "none"
               /\ engAns[c] = NoAnswer

C18_Witness ==
    \E c \in Conns :
        Answered(c, "GET", "/v1/chat/completions") /\ rsp[c].status = 405 /\ Running # {}

\* C19: OPTIONS on a route wrapped by cors is answered 204 with the three
\* Access-Control-Allow-* headers and an empty body; the wrapped handler
\* function does not run and nothing is sent to the engine
C19_PreflightNoHandler ==
    \A c \in Conns :
        (gwPc[c] = "done" /\ req[c].method = "OPTIONS" /\ req[c].path \in CorsPaths)
            => /\ rsp[c].status = 204
               /\ CorsHeaderNames \subseteq rsp[c].hdrs
               /\ rsp[c].body = "empty"
               /\ rsp[c].ids = << >>
               /\ ran[c] = "none"
               /\ sent[c] = "none"

C19_Witness ==
    \E c \in Conns :
        /\ Answered(c, "OPTIONS", "/v1/models")
        /\ rsp[c].status = 204
        /\ CorsHeaderNames \subseteq rsp[c].hdrs

\* C20: the answer to GET /health is 503 with the structured error body
\* when the request to the engine's /health failed, and otherwise carries
\* the status code the engine answered
C20_HealthRelayed ==
    \A c \in Conns :
        Answered(c, "GET", "/health")
            => /\ sent[c] = "health"
               /\ IF RequestFailed(engAns[c])
                    THEN /\ rsp[c].status = 503
                         /\ rsp[c].body = "error"
                         /\ rsp[c].errType = "server_error"
                         /\ rsp[c].ctype = "application/json"
                    ELSE engAns[c] \in EngineStatuses /\ rsp[c].status = engAns[c]

\* the engine is gone and the gateway says so
C20_Witness ==
    \E c \in Conns :
        /\ Answered(c, "GET", "/health")
        /\ Running = {}
        /\ engAns[c] = ConnErr
        /\ rsp[c].status = 503

\* the engine answers 503 and the gateway passes it on
C20_WitnessRelay ==
    \E c \in Conns :
        /\ Answered(c, "GET", "/health")
        /\ engAns[c] = 503
        /\ rsp[c].status = 503
        /\ rsp[c].body = "engine"

\* connection c carries a forwarded request that could not reach the engine
ForwardFailed(c) ==
    /\ gwPc[c] = "done"
    /\ sent[c] = "proxy"
    /\ RequestFailed(engAns[c])

\* C21: a forwarded request that cannot reach the engine is answered 502 or
\* 503; the gateway keeps running and serving, and the answer to GET
\* /v1/models on another connection, whenever that request is made, is the
\* 200 list of the configured model, as it is with no failing request; a
\* request whose connection to the engine was refused is always answered,
\* never cut off by the server's write timeout
C21_FailureIsolated ==
    \A c \in Conns :
        /\ engAns[c] = ConnErr => gwPc[c] = "done"
        /\ ForwardFailed(c)
            => /\ rsp[c].status \in {502, 503}
               /\ exitStatus = "running"
               /\ served
               /\ \A d \in Conns \ {c} :
                    Answered(d, "GET", "/v1/models")
                        => /\ rsp[d].status = 200
                           /\ rsp[d].body = "models"
                           /\ rsp[d].ids = << modelName >>

\* a forward has failed on one connection and the model list is served on
\* another
C21_Witness ==
    \E c \in Conns : \E d \in Conns \ {c} :
        /\ ForwardFailed(c)
        /\ rsp[c].status = 502
        /\ Answered(d, "GET", "/v1/models")
        /\ rsp[d].status = 200

\* C22: the answer to a POST on a completion/embedding route that could not
\* be forwarded because the engine is unreachable has the structured JSON
\* error body, with the error's message and type
C22_UnreachableStructured ==
    \A c \in Conns :
        (ForwardFailed(c) /\ req[c].method = "POST" /\ req[c].path \in ProxyPaths)
            => /\ rsp[c].body = "error"
               /\ rsp[c].errType # ""
               /\ rsp[c].ctype = "application/json"

\* C23: in every run, the server is constructed with an engine URL that
\* names 127.0.0.1 and a port other than the gateway's own port, and the
\* engine it started was told to bind 127.0.0.1
C23_PortsDiffer ==
    served
        => /\ srv.backendURL.port # srv.port
           /\ srv.backendURL.host = "127.0.0.1"
           /\ EngineBind(cfg).host = "127.0.0.1"

\* the chunks of a sequence of deliveries, in the order of arrival
RECURSIVE Received(_)
Received(d) == IF d = << >> THEN << >> ELSE Head(d).chunks \o Received(Tail(d))

\* the proxy has relayed the whole response
StreamDone == stream.n > 0 /\ stream.eof /\ stream.buf = << >>

\* every chunk has arrived alone, while the engine's response was open
EachChunkAlone ==
    /\ Len(stream.deliv) = stream.n
    /\ \A i \in 1..Len(stream.deliv) : stream.deliv[i] = [chunks |-> << i >>, open |-> TRUE]

\* the statement of C24 as given: whenever the engine emits N chunks one
\* after another, the client receives N deliveries, one per chunk in the
\* order of emission, each before the engine's response has ended
C24_ChunksSeparate == StreamDone => EachChunkAlone

\* C24: the chunks the client has received, then those the proxy holds,
\* then those it has not read, are the chunks the engine has emitted, in
\* the order of emission, whatever the pace of the engine; and when the
\* engine lets at least two flush intervals pass between chunks and before
\* the end of the response, the client receives N deliveries, one per
\* chunk, each before the engine's response has ended
C24_StaggeredChunksSeparate ==
    /\ Received(stream.deliv) \o stream.buf \o stream.pipe
           = [i \in 1..stream.emitted |-> i]
    /\ (StreamDone /\ stream.staggered) => EachChunkAlone

\* a staggered stream of more than one chunk has been relayed
C24_Witness ==
    /\ StreamDone
    /\ stream.staggered
    /\ stream.n = MaxChunks
    /\ Len(stream.deliv) = MaxChunks

\* what belongs to the request on connection c
ConnState(c) == << gwPc[c], req[c], rsp[c], ran[c], sent[c], fwd[c], engAns[c] >>

\* C25: no step of the gateway changes the port, the engine URL or the
\* model name that NewServer has set, and a step of the handler of one
\* connection changes nothing that belongs to another connection
C25_ConfigurationFixed ==
    [][ /\ srv' = srv
        /\ modelName' = modelName
        /\ \E c \in Conns : \A d \in Conns \ {c} : ConnState(d)' = ConnState(d) ]_vars

\* two handlers are in progress at once and the configuration is the one
\* NewServer was called with
C25_Witness ==
    /\ \E c \in Conns : \E d \in Conns \ {c} :
         /\ gwPc[c] = "blocked"
         /\ gwPc[d] = "done"
         /\ sent[d] = "proxy"
    /\ srv = NewServer(cfg.port, BackendURL(cfg))
    /\ modelName \in ModelNames

\* C26: a POST to a completion/embedding route is forwarded whatever its
\* body says, and what the engine receives has the method, the path and the
\* body of the client's request; the model name in the answers to GET
\* /v1/models and GET / is the one the server was constructed with
C26_ForwardedVerbatim ==
    \A c \in Conns :
        /\ (gwPc[c] \in {"blocked", "overdue", "done", "cut"}
               /\ req[c].method = "POST" /\ req[c].path \in ProxyPaths)
               => /\ sent[c] = "proxy"
                  /\ fwd[c] = req[c]
        /\ (Answered(c, "GET", "/v1/models") \/ Answered(c, "GET", "/"))
               => rsp[c].ids = << modelName >>

\* a request that names a model other than the advertised one has reached
\* the engine as it was, and the advertised name is served next to it
C26_Witness ==
    \E c \in Conns : \E d \in Conns \ {c} :
        /\ gwPc[c] = "done"
        /\ sent[c] = "proxy"
        /\ req[c].body \in ModelNames \ {modelName}
        /\ fwd[c].body = req[c].body
        /\ engAns[c] = 200
        /\ Answered(d, "GET", "/v1/models")
        /\ rsp[d].ids = << modelName >>

\* the readiness of the engine as cmdRun knows it: Start has not spawned
\* the engine, WaitReady has not returned, it has returned nil, or it has
\* returned an error
Readiness ==
    IF wrResult = "ok" THEN "Ready"
    ELSE IF wrResult # "none" THEN "Failed"
    ELSE IF spawned > 0 THEN "Starting"
    ELSE "NotStarted"

\* the forward moves
ReadinessForward ==
    { << "NotStarted", "Starting" >>, << "Starting", "Ready" >>, << "Starting", "Failed" >> }

\* C27: in a run, the readiness changes by forward moves only, so Ready and
\* Failed are each entered at most once and never left; and once WaitReady
\* has failed the program sends no further probe and does not start serving
C27_ReadinessMonotonic ==
    [][ /\ Readiness' # Readiness => << Readiness, Readiness' >> \in ReadinessForward
        /\ Readiness = "Failed"
             => (~served' /\ probes' <= probes /\ pc'["main"] # "wr_probe") ]_vars

\* WaitReady has failed, cmdRun has called Stop and the program has exited
C27_Witness ==
    /\ Readiness = "Failed"
    /\ failedStep = "r_wait"
    /\ stopStreak >= 1
    /\ ~served
    /\ exitStatus = "exit1"

\* the file exists and is not empty
NonEmptyFile(f) == f \in ArchiveKinds \ {"empty"}

\* C28: DownloadFile called with an existing non-empty destination goes
\* through none of its download steps, and when it has returned nil no
\* request was made other than the release lookup that precedes it and no
\* file, the temporary one included, differs from what it was; called with
\* an absent or empty destination it has made its request and has put the
\* downloaded file in the place of the destination
C28_SkipExisting ==
    /\ pc["main"] \in {"dl_get", "dl_copy", "dl_rename"} => ~NonEmptyFile(fsAtCall.zip)
    /\ pc["main"] = "ex_open"
         => IF NonEmptyFile(fsAtCall.zip)
              THEN netReqs = 1 /\ fs = fsAtCall
              ELSE netReqs = 2 /\ fs.tmp = "absent" /\ fs.zip \in ArchiveKinds

\* the archive of an earlier call is there and DownloadFile has returned
\* without a request
C28_Witness ==
    /\ pc["main"] = "ex_open"
    /\ NonEmptyFile(fsAtCall.zip)
    /\ netReqs = 1
    /\ fs = fsAtCall

\* an empty archive was there and has been downloaded again
C28_WitnessEmpty ==
    /\ pc["main"] = "ex_open"
    /\ fsAtCall.zip = "empty"
    /\ netReqs = 2
    /\ fs.zip = "good"

\* C29: when findRelease has decoded a release: if some archive matches
\* some hint, the asset returned is an archive that matches the first hint,
\* in the order of the hints, that any archive matches, wherever it stands
\* in the list; if no archive matches a hint, the asset returned is an
\* archive that names the OS and no accelerator, or, when there is none,
\* the result is an error
C29_HintsBeforeFallback ==
    (rel.out.done /\ rel.fetch = "ok")
        => LET hints == targetAssetHints(rel.goos, rel.goarch)
               lower(i) == ToLower(rel.assets[i])
               M(i, j) == Contains(lower(i), Key(hints[j], FALSE)) /\ lower(i).ext \in {"zip", "tar.gz"}
               hinted == { j \in 1..Len(hints) : \E i \in 1..Len(rel.assets) : M(i, j) }
               F(i) == /\ Contains(lower(i), osAssetKey(rel.goos))
                       /\ lower(i).ext \in {"zip", "tar.gz"}
                       /\ \A t \in 1..Len(lower(i).toks) :
                            lower(i).toks[t] \notin {"cuda", "vulkan", "sycl", "hip", "opencl",
                                                     "aclgraph", "cudart"}
               at == rel.out.at
           IN  /\ at \in 0..Len(rel.assets)
               /\ (rel.out.err = "") <=> (at # 0)
               /\ hinted # {}
                    => /\ at # 0
                       /\ \E j \in hinted : M(at, j) /\ \A k \in hinted : j <= k
               /\ hinted = {}
                    => IF \E i \in 1..Len(rel.assets) : F(i)
                         THEN at # 0 /\ F(at)
                         ELSE at = 0 /\ rel.out.err = "nomatch"

\* on windows/amd64 the release lists the avx2 archive before the cpu
\* archive, and the cpu archive, which matches the first hint, is returned
C29_Witness ==
    /\ rel.out.done
    /\ rel.goos = "windows" /\ rel.goarch = "amd64"
    /\ Len(rel.assets) = 2
    /\ rel.assets[1].toks = << "llama", "bin", "win", "avx2", "x64" >>
    /\ rel.assets[2].toks = << "llama", "bin", "win", "cpu", "x64" >>
    /\ rel.assets[2].ext = "zip"
    /\ rel.out.at = 2

\* the fallback passes over an accelerator archive
C29_WitnessFallback ==
    /\ rel.out.done
    /\ rel.goos = "linux" /\ rel.goarch = "arm64"
    /\ Len(rel.assets) = 2
    /\ rel.assets[1].toks = << "llama", "bin", "ubuntu", "vulkan", "x64" >>
    /\ rel.out.at = 2

\* C30: when the program has exited after Start spawned the engine, a Stop
\* has run and no engine process is alive
C30_NoLiveEngineAtExit ==
    (exitStatus # "running" /\ spawned > 0)
        => (stopStreak >= 1 /\ Running = {})

\* the positions of the main task inside DownloadFile
DownloadPcs == {"dl_stat", "dl_get", "dl_copy", "dl_rename"}

\* DownloadFile returns an error in this step
DownloadFails == pc["main"] \in DownloadPcs /\ pc'["main"] = "eb_done"

\* the statement of C31 as given: after any failed call of DownloadFile the
\* destination is what it was before the call and there is no temporary
\* file
C31_FailedDownloadNoTmp ==
    [][ DownloadFails
          => /\ ebResult' = "err"
             /\ fs'.zip = fsAtCall.zip
             /\ fs'.tmp = "absent" ]_vars

\* C31: after any failed call of DownloadFile the destination is what it
\* was before the call; when the call had created its temporary file, that
\* file has been removed; when the call failed before creating it (the
\* directory, the request, the status, os.Create), a temporary file left by
\* an earlier interrupted download is still there, untouched
C31_FailedDownloadLeavesDest ==
    [][ DownloadFails
          => /\ ebResult' = "err"
             /\ fs'.zip = fsAtCall.zip
             /\ fs'.bin = fsAtCall.bin
             /\ IF pc["main"] \in {"dl_copy", "dl_rename"}
                  THEN fs'.tmp = "absent"
                  ELSE fs'.tmp = fsAtCall.tmp ]_vars

\* a call that found no archive and a temporary file of an interrupted
\* download has failed after creating its own temporary file: the archive
\* is still absent and the temporary file is gone
C31_Witness ==
    /\ pc["main"] = "eb_done"
    /\ ebResult = "err"
    /\ fsAtCall.zip = "absent"
    /\ fs.zip = "absent"
    /\ fsAtCall.tmp = "partial"
    /\ fs.tmp = "absent"

\* the paths whose handlers send a request to the engine
EnginePaths == ProxyPaths \cup {"/health"}

\* a request has gone to the engine only for POST on a completion/embedding
\* route or for /health
OnlyEnginePathsForwarded ==
    \A c \in Conns :
        /\ sent[c] = "proxy" => (req[c].method = "POST" /\ req[c].path \in ProxyPaths)
        /\ sent[c] = "health" => req[c].path = "/health"
        /\ req[c].path \notin EnginePaths => (sent[c] = "none" /\ fwd[c] = NoReq /\ engAns[c] = NoAnswer)

\* the statement of C32 as given: only POST on the completion/embedding
\* routes and /health cause a request to the engine, and every request to
\* another path is answered with the root document for "/", the model list
\* for /v1/models and 404 for the rest
C32_OtherPathsLocal ==
    /\ OnlyEnginePathsForwarded
    /\ \A c \in Conns :
         (gwPc[c] = "done" /\ req[c].path \notin EnginePaths)
             => IF req[c].path = "/" THEN rsp[c].status = 200 /\ rsp[c].body = "root"
                ELSE IF req[c].path = "/v1/models"
                  THEN rsp[c].status = 200 /\ rsp[c].body = "models"
                ELSE rsp[c].status = 404

\* C32: only POST on the completion/embedding routes and /health cause a
\* request to the engine; a request to another path never reaches it and
\* is answered by the gateway: 200 with the root document for "/", 200 with
\* the model list for /v1/models unless the method is OPTIONS, which is
\* answered 204 by the cors wrapper, 301 with the cleaned path as Location
\* and no handler run for a path that is not in canonical form unless the
\* method is CONNECT, and 404 for the rest, a CONNECT request to a path
\* not in canonical form included; the 301 answer has a body for GET only,
\* and the answer to a HEAD request has the status and no body
C32_OtherPathsLocalButPreflight ==
    /\ OnlyEnginePathsForwarded
    /\ \A c \in Conns :
         (gwPc[c] = "done" /\ req[c].path \notin EnginePaths)
             => LET body(b) == IF req[c].method = "HEAD" THEN "empty" ELSE b
                IN  IF req[c].method # "CONNECT" /\ CleanPath(req[c].path) # req[c].path
                      THEN /\ rsp[c].status = 301
                           /\ rsp[c].loc = CleanPath(req[c].path)
                           /\ rsp[c].body = IF req[c].method = "GET" THEN "moved" ELSE "empty"
                           /\ ran[c] = "none"
                    ELSE IF req[c].path = "/"
                      THEN rsp[c].status = 200 /\ rsp[c].body = body("root")
                    ELSE IF req[c].path = "/v1/models"
                      THEN IF req[c].method = "OPTIONS"
                             THEN rsp[c].status = 204 /\ rsp[c].body = "empty"
                             ELSE rsp[c].status = 200 /\ rsp[c].body = body("models")
                    ELSE rsp[c].status = 404 /\ rsp[c].body = body("notfound")

\* a POST to a path that is not registered is answered 404 while the engine
\* runs, and a POST to a completion route on the other connection has been
\* forwarded
C32_Witness ==
    \E c \in Conns : \E d \in Conns \ {c} :
        /\ Answered(c, "POST", "/v1/other")
        /\ rsp[c].status = 404
        /\ sent[c] = "none"
        /\ Running # {}
        /\ Answered(d, "POST", "/v1/completions")
        /\ sent[d] = "proxy"

\* a POST to a completion route written with a "." element is answered 301
\* and has not gone to the engine, which runs
C32_WitnessRedirect ==
    \E c \in Conns :
        /\ Answered(c, "POST", "/v1/./completions")
        /\ rsp[c].status = 301
        /\ rsp[c].loc = "/v1/completions"
        /\ sent[c] = "none"
        /\ Running # {}

\* a CONNECT request to the model list written with an empty element is
\* answered 404 by handleRoot, with no redirect, while the engine runs
C32_WitnessConnect ==
    \E c \in Conns :
        /\ Answered(c, "CONNECT", "/v1//models")
        /\ rsp[c].status = 404
        /\ rsp[c].loc = ""
        /\ ran[c] = "handleRoot"
        /\ sent[c] = "none"
        /\ Running # {}

\* a HEAD request to the model list written with an empty element is
\* answered 301 with the Content-Type set and no body
C32_WitnessRedirectHead ==
    \E c \in Conns :
        /\ Answered(c, "HEAD", "/v1//models")
        /\ rsp[c].status = 301
        /\ rsp[c].loc = "/v1/models"
        /\ "Content-Type" \in rsp[c].hdrs
        /\ rsp[c].body = "empty"

\* the engine takes its time: the handler of a forwarded POST waits while
\* the other connection is served, and then relays the engine's 200
GwLateAnswer ==
    \E c \in Conns : \E d \in Conns \ {c} :
        /\ Answered(c, "POST", "/v1/completions")
        /\ engAns[c] = 200
        /\ rsp[c].status = 200
        /\ Answered(d, "GET", "/health")
        /\ gwPc[d] = "done"
        /\ Running # {}

\* the answer came after the write timeout: the client has nothing
GwLateCut ==
    \E c \in Conns :
        /\ gwPc[c] = "cut"
        /\ sent[c] = "health"
        /\ engAns[c] = 200
        /\ rsp[c] = NoRsp

\* C33: the registry never holds two entries of one repo id; after Add of
\* an entry whose repo id was present, the registry has as many entries as
\* before, the new entry stands where the old one stood and the others are
\* as they were, and otherwise the new entry is the last, after the others;
\* after Remove of an id that is neither the ID nor the RepoID of an entry,
\* the call has returned the not-found error and the entries are as before
C33_OneEntryPerRepo ==
    /\ NoDuplicates(reg.entries)
    /\ reg.op = "Add"
         => LET at == Find(reg.before, reg.e.repoID)
            IN  IF at # 0
                  THEN /\ Len(reg.entries) = Len(reg.before)
                       /\ \A i \in 1..Len(reg.before) :
                            reg.entries[i] = IF i = at THEN reg.e ELSE reg.before[i]
                  ELSE /\ Len(reg.entries) = Len(reg.before) + 1
                       /\ \A i \in 1..Len(reg.before) : reg.entries[i] = reg.before[i]
                       /\ reg.entries[Len(reg.entries)] = reg.e
    /\ (reg.op = "Remove"
          /\ \A i \in 1..Len(reg.before) :
               reg.before[i].id # reg.id /\ reg.before[i].repoID # reg.id)
         => /\ reg.err = "notfound"
            /\ reg.entries = reg.before
            /\ reg.unlinked = 0

\* Add has replaced the first of two entries by another entry of its repo id
C33_Witness ==
    /\ reg.op = "Add"
    /\ Len(reg.before) = 2
    /\ reg.before[1].repoID = reg.e.repoID
    /\ reg.before[1] # reg.e
    /\ Len(reg.entries) = 2
    /\ reg.entries[1] = reg.e

\* Remove of an id that matches nothing has left the entries as they were
C33_WitnessRemove ==
    /\ reg.op = "Remove"
    /\ reg.err = "notfound"
    /\ reg.before # << >>
    /\ reg.entries = reg.before
====
